---- MODULE Spec2Model ----
(***************************************************************************)
(* A model of the coordination core of agentic-stack: the Redis-backed     *)
(* lock primitive, the TaskMessage wire format, the Orchestrator's task    *)
(* registry and routing, the RabbitMQ adapter and the Agent Runtime.       *)
(*                                                                         *)
(* The module holds several specifications over one set of variables:      *)
(*   SpecLock   RedisClient.acquire_lock / release_lock under interleaving *)
(*   SpecWire   TaskMessage.to_json / from_json                            *)
(*   SpecRoute  Orchestrator.route_task                                    *)
(*   Spec       Orchestrator + broker + agents, the store coming and going *)
(*   FairSpec   Spec with a reachable store and a fairly run consumer      *)
(*   SpecAssign Orchestrator.create_task / assign_task alone               *)
(*   SpecOutage the same, the broker failing as well as the store          *)
(*   SpecSpawn  Orchestrator.register_agent_class / spawn_agent            *)
(*   SpecReply  the Orchestrator consuming replies, also about unknown     *)
(*              tasks                                                      *)
(*   SpecHealth Orchestrator.get_system_health, from check to check        *)
(*   SpecAgent  one BaseAgent: start, handle_message step by step, stop    *)
(*   SpecBeat   one BaseAgent: start, heartbeat over time, stop            *)
(*   SpecOverlap one BaseAgent taking a second message during a call       *)
(*   SpecRace   one BaseAgent: the heartbeat's write against a call's       *)
(*   SpecAddress one BaseAgent handed messages for any agent type          *)
(* Each specification moves only its own group of variables.               *)
(***************************************************************************)
EXTENDS Integers, Sequences, FiniteSets, TLC

VARIABLES
    \* ---- lock subsystem (src/src/services/redis_client.py) ----
    now,        \* the store's clock, in seconds
    locks,      \* key lock:{name} -> the stored holder and its expiry
    proc,       \* per client: where it is inside acquire_lock / release_lock
    grants,     \* per name: acquire_lock calls that returned True since the
                \* entry was last absent (history variable)
    \* ---- wire format (src/src/services/rabbitmq_client.py) ----
    wire,       \* one TaskMessage on its way through to_json and from_json
    \* ---- routing (src/src/core/orchestrator.py) ----
    route,      \* the last route_task call: its task and what it returned
    health,     \* the get_system_health call under way or last made
    \* ---- orchestrator, broker, store, agents ----
    store_up,       \* the Redis server is reachable
    published,      \* messages published so far, each under fresh uuid4() ids
    orch,           \* Orchestrator._running, its consumer registration and
                    \* how its last spawn_agent call ended
    tasks,          \* Orchestrator._tasks: task_id -> Task
    snap,           \* store keys task:{task_id}: task_id -> Task.to_dict()
    context,        \* store keys agent:context:{task_id}
    agent_status,   \* store hash agent:status: agent id -> status string
    queues,         \* broker: queue name -> the messages ready for delivery
    unacked,        \* broker: the delivery the Orchestrator's consumer holds
    agent_classes,  \* Orchestrator._agent_classes (its keys)
    agents,         \* Orchestrator._agents: agent id -> the BaseAgent object
    audit,          \* DECISIONS.jsonl and FAILURES.jsonl, in append order
    velocity,       \* VELOCITY.jsonl, in append order
    \* ---- one Agent Runtime at its suspension points ----
    broker_up,      \* the RabbitMQ server is reachable
    rt              \* where the runtime is inside handle_message, its
                    \* heartbeat loop and stop()

lockVars == <<locks, proc, grants>>
wireVars == <<wire>>
routeVars == <<route, health>>
envVars == <<store_up>>
storeVars == <<snap, context, agent_status>>
brokerVars == <<queues, unacked>>
orchVars == <<orch, tasks, agent_classes>>
logVars == <<audit, velocity>>
rtVars == <<broker_up, rt>>
sysVars == <<envVars, published, orchVars, storeVars, brokerVars, agents, logVars,
             rtVars>>

vars == <<now, locks, proc, grants, wire, route, health, sysVars>>

(***************************************************************************)
(*                          Lock subsystem                                 *)
(***************************************************************************)

\* Bounds of the lock model.
MaxTime == 3
MaxTtl == 2

LockNames == {"l1", "l2"}
Holders == {"h1", "h2"}
Ttls == 1..MaxTtl

\* The value GET returns for a missing key (Python None).
None == "None"

\* An absent key lock:{name}.
NoLock == [holder |-> None, expiry |-> 0]

\* A client that is outside any lock call.
IdleProc ==
    [pc |-> "idle", op |-> "none", name |-> "none", ttl |-> 0,
     current_holder |-> None, seen |-> NoLock, result |-> FALSE]

\* Redis SET key value NX EX ttl, as one server-side command: the new entry
\* and the reply (True when the key was set, None -> False otherwise).
SetNxEx_NoNx(entry, holder, ttl, t) ==
    [entry |-> [holder |-> holder, expiry |-> t + ttl], reply |-> TRUE]

SetNxEx(entry, holder, ttl, t) ==
    IF entry = NoLock
    THEN [entry |-> [holder |-> holder, expiry |-> t + ttl], reply |-> TRUE]
    ELSE [entry |-> entry, reply |-> FALSE]

\* release_lock's comparison of the holder it read with its own.
IsOwner_Always(current_holder, holder) == TRUE

IsOwner(current_holder, holder) == current_holder = holder

\* acquire_lock is entered: the client is about to issue its SET.
AcquireLockCall(p, n, ttl) ==
    /\ proc[p].pc = "idle"
    /\ proc' = [proc EXCEPT ![p] =
            [IdleProc EXCEPT !.pc = "acq_set", !.op = "acquire",
                             !.name = n, !.ttl = ttl]]
    /\ UNCHANGED <<now, locks, grants, wire, routeVars, sysVars>>

\* acquire_lock's SET NX EX reaches the store and the call returns
\* `result is True`.
AcquireLockSet(p) ==
    /\ proc[p].pc = "acq_set"
    /\ LET n == proc[p].name
           r == SetNxEx(locks[n], p, proc[p].ttl, now)
       IN /\ locks' = [locks EXCEPT ![n] = r.entry]
          /\ proc' = [proc EXCEPT ![p].pc = "ret", ![p].result = r.reply,
                                  ![p].seen = locks[n]]
          /\ grants' = [grants EXCEPT ![n] = IF r.reply THEN @ + 1 ELSE @]
    /\ UNCHANGED <<now, wire, routeVars, sysVars>>

\* release_lock is entered.
ReleaseLockCall(p, n) ==
    /\ proc[p].pc = "idle"
    /\ proc' = [proc EXCEPT ![p] =
            [IdleProc EXCEPT !.pc = "rel_get", !.op = "release", !.name = n]]
    /\ UNCHANGED <<now, locks, grants, wire, routeVars, sysVars>>

\* release_lock's GET: the holder is read and compared; a mismatch (or a
\* missing key) returns False at once, a match goes on to the DELETE.
ReleaseLockGet(p) ==
    /\ proc[p].pc = "rel_get"
    /\ LET n == proc[p].name
           cur == locks[n].holder
       IN proc' = [proc EXCEPT
              ![p].current_holder = cur,
              ![p].seen = locks[n],
              ![p].pc = IF IsOwner(cur, p) THEN "rel_del" ELSE "ret",
              ![p].result = FALSE]
    /\ UNCHANGED <<now, locks, grants, wire, routeVars, sysVars>>

\* release_lock's DELETE, a second command after the GET; the call returns
\* True whatever the key holds by now.
ReleaseLockDelete(p) ==
    /\ proc[p].pc = "rel_del"
    /\ LET n == proc[p].name
       IN /\ locks' = [locks EXCEPT ![n] = NoLock]
          /\ grants' = [grants EXCEPT ![n] = 0]
    /\ proc' = [proc EXCEPT ![p].pc = "ret", ![p].result = TRUE]
    /\ UNCHANGED <<now, wire, routeVars, sysVars>>

\* The caller takes the returned value; the client is free for its next call.
LockReturn(p) ==
    /\ proc[p].pc = "ret"
    /\ proc' = [proc EXCEPT ![p] = IdleProc]
    /\ UNCHANGED <<now, locks, grants, wire, routeVars, sysVars>>

\* An entry whose EX time has elapsed is gone.
Expired(entry, t) == entry # NoLock /\ entry.expiry <= t

\* One second passes; the store drops every key whose EX time has elapsed.
Tick ==
    /\ now < MaxTime
    /\ now' = now + 1
    /\ locks' = [n \in LockNames |->
                    IF Expired(locks[n], now + 1) THEN NoLock ELSE locks[n]]
    /\ grants' = [n \in LockNames |->
                    IF Expired(locks[n], now + 1) THEN 0 ELSE grants[n]]
    /\ UNCHANGED <<proc, wire, routeVars, sysVars>>

(***************************************************************************)
(*                 TaskMessage and its wire format                         *)
(***************************************************************************)

\* Python values, all of one shape: k is the type, s the text of a scalar
\* (a str as it is, an int by its decimal digits) or the key of a dict
\* item, items the members of a list or dict.
PyVal(k, s, items) == [k |-> k, s |-> s, items |-> items]
PyStr(s) == PyVal("str", s, <<>>)
PyInt(s) == PyVal("int", s, <<>>)
PyBool(b) == PyVal("bool", IF b THEN "True" ELSE "False", <<>>)
PyNone == PyVal("NoneType", "", <<>>)
PyList(items) == PyVal("list", "", items)
PyItem(key, value) == PyVal("item", key, <<value>>)
PyDict(pairs) == PyVal("dict", "", pairs)

\* The tokens of a JSON text.
Tok(t, s) == [t |-> t, s |-> s]
LBrace == Tok("punct", "{")
RBrace == Tok("punct", "}")
LBracket == Tok("punct", "[")
RBracket == Tok("punct", "]")
Comma == Tok("punct", ",")
Colon == Tok("punct", ":")

RECURSIVE JsonDumps(_), DumpsItems(_, _), DumpsMembers(_, _)

\* json.dumps: the JSON text of a Python value.
JsonDumps(v) ==
    CASE v.k = "str" -> <<Tok("string", v.s)>>
      [] v.k = "int" -> <<Tok("number", v.s)>>
      [] v.k = "bool" -> <<Tok("literal", IF v.s = "True" THEN "true" ELSE "false")>>
      [] v.k = "NoneType" -> <<Tok("literal", "null")>>
      [] v.k = "list" -> <<LBracket>> \o DumpsItems(v.items, 1) \o <<RBracket>>
      [] v.k = "dict" -> <<LBrace>> \o DumpsMembers(v.items, 1) \o <<RBrace>>

DumpsItems(items, i) ==
    IF i > Len(items) THEN <<>>
    ELSE (IF i > 1 THEN <<Comma>> ELSE <<>>)
            \o JsonDumps(items[i]) \o DumpsItems(items, i + 1)

DumpsMembers(pairs, i) ==
    IF i > Len(pairs) THEN <<>>
    ELSE (IF i > 1 THEN <<Comma>> ELSE <<>>)
            \o <<Tok("string", pairs[i].s), Colon>>
            \o JsonDumps(pairs[i].items[1]) \o DumpsMembers(pairs, i + 1)

RECURSIVE ParseValue(_), ParseItems(_, _), ParseMembers(_, _)

\* json.loads, by recursive descent: the value at the head of the tokens and
\* the tokens left.
ParseValue(toks) ==
    LET h == Head(toks)
    IN CASE h.t = "string" -> [v |-> PyStr(h.s), rest |-> Tail(toks)]
         [] h.t = "number" -> [v |-> PyInt(h.s), rest |-> Tail(toks)]
         [] h.t = "literal" ->
                [v |-> IF h.s = "null" THEN PyNone ELSE PyBool(h.s = "true"),
                 rest |-> Tail(toks)]
         [] h = LBracket -> ParseItems(Tail(toks), <<>>)
         [] h = LBrace -> ParseMembers(Tail(toks), <<>>)

ParseItems(toks, acc) ==
    IF Head(toks) = RBracket
    THEN [v |-> PyList(acc), rest |-> Tail(toks)]
    ELSE LET r == ParseValue(IF Head(toks) = Comma THEN Tail(toks) ELSE toks)
         IN ParseItems(r.rest, Append(acc, r.v))

ParseMembers(toks, acc) ==
    IF Head(toks) = RBrace
    THEN [v |-> PyDict(acc), rest |-> Tail(toks)]
    ELSE LET ts == IF Head(toks) = Comma THEN Tail(toks) ELSE toks
             r == ParseValue(Tail(Tail(ts)))
         IN ParseMembers(r.rest, Append(acc, PyItem(Head(ts).s, r.v)))

JsonLoads(text) == ParseValue(text).v

\* dict.get(key, default) on a Python dict.
RECURSIVE DictGetFrom(_, _, _, _)
DictGetFrom(pairs, key, default, i) ==
    IF i > Len(pairs) THEN default
    ELSE IF pairs[i].s = key THEN pairs[i].items[1]
    ELSE DictGetFrom(pairs, key, default, i + 1)

DictGet(d, key, default) == DictGetFrom(d.items, key, default, 1)

\* datetime.utcnow().isoformat() + "Z" at clock value t.
Stamp(t) == "T" \o ToString(t) \o "Z"

\* TaskMessage.__post_init__: a missing timestamp is the time of construction.
PostInit_Always(m, t) == [m EXCEPT !.timestamp = Stamp(t)]

PostInit(m, t) ==
    IF m.timestamp = None THEN [m EXCEPT !.timestamp = Stamp(t)] ELSE m

\* The dataclass constructor TaskMessage(...) called at clock value t.
TaskMessage(message_id, correlation_id, task_id, source_agent, target_agent, action, payload, priority, timestamp, t) ==
    PostInit([message_id |-> message_id, correlation_id |-> correlation_id,
              task_id |-> task_id, source_agent |-> source_agent,
              target_agent |-> target_agent, action |-> action,
              payload |-> payload, priority |-> priority,
              timestamp |-> timestamp], t)

\* A str | None field as a Python value.
PyOptStr(s) == IF s = None THEN PyNone ELSE PyStr(s)

\* TaskMessage.to_dict.
ToDict(m) ==
    PyDict(<<PyItem("message_id", PyStr(m.message_id)),
             PyItem("correlation_id", PyStr(m.correlation_id)),
             PyItem("task_id", PyStr(m.task_id)),
             PyItem("source_agent", PyStr(m.source_agent)),
             PyItem("target_agent", PyStr(m.target_agent)),
             PyItem("action", PyStr(m.action)),
             PyItem("payload", m.payload),
             PyItem("priority", PyStr(m.priority)),
             PyItem("timestamp", PyOptStr(m.timestamp))>>)

\* TaskMessage.from_dict at clock value t: cls(**data), the defaults of the
\* dataclass for priority and timestamp, then __post_init__.
FromDict(data, t) ==
    LET ts == DictGet(data, "timestamp", PyNone)
    IN TaskMessage(DictGet(data, "message_id", PyNone).s,
                   DictGet(data, "correlation_id", PyNone).s,
                   DictGet(data, "task_id", PyNone).s,
                   DictGet(data, "source_agent", PyNone).s,
                   DictGet(data, "target_agent", PyNone).s,
                   DictGet(data, "action", PyNone).s,
                   DictGet(data, "payload", PyNone),
                   DictGet(data, "priority", PyStr("normal")).s,
                   IF ts = PyNone THEN None ELSE ts.s,
                   t)

\* TaskMessage.to_json and TaskMessage.from_json.
ToJson(m) == JsonDumps(ToDict(m))
FromJson(text, t) == FromDict(JsonLoads(text), t)

\* Payloads as the program builds them: empty, the tests' payloads, the
\* payload of assign_task, a TaskResult.to_dict().
WirePayloads ==
    {PyDict(<<>>),
     PyDict(<<PyItem("spec", PyStr("test"))>>),
     PyDict(<<PyItem("tests", PyList(<<PyStr("test1"), PyStr("test2")>>))>>),
     PyDict(<<PyItem("title", PyStr("Implement login button")),
              PyItem("description", PyStr("")),
              PyItem("tags", PyList(<<>>)),
              PyItem("metadata", PyDict(<<PyItem("k", PyDict(<<>>))>>))>>),
     PyDict(<<PyItem("success", PyBool(FALSE)),
              PyItem("result", PyNone),
              PyItem("error", PyStr("Unknown action: unknown.verb")),
              PyItem("duration_ms", PyInt("12")),
              PyItem("artifacts", PyList(<<PyDict(<<>>)>>))>>),
     PyDict(<<PyItem("success", PyBool(TRUE)),
              PyItem("result", PyDict(<<PyItem("mock", PyStr("result"))>>)),
              PyItem("error", PyNone),
              PyItem("duration_ms", PyInt("0")),
              PyItem("artifacts", PyList(<<>>))>>)}

WireActions == {"task.assign", "task.complete", "unknown.verb"}
WirePriorities == {"normal", "high", "low"}
WireAgents == {"orchestrator", "coder-1a2b"}

\* No message under way.
NoMessage ==
    [message_id |-> None, correlation_id |-> None, task_id |-> None,
     source_agent |-> None, target_agent |-> None, action |-> None,
     payload |-> PyNone, priority |-> None, timestamp |-> None]

IdleWire ==
    [pc |-> "none", built_at |-> 0, msg |-> NoMessage, text |-> <<>>,
     back |-> NoMessage]

\* A TaskMessage is constructed, with a timestamp given or left to the
\* constructor.
WireConstruct(corr, src, dst, action, payload, priority, given) ==
    /\ wire.pc = "none"
    /\ wire' = [IdleWire EXCEPT
            !.pc = "built",
            !.built_at = now,
            !.msg = TaskMessage("m1", corr, "t1", src, dst, action, payload,
                                priority,
                                IF given THEN "2024-01-01T00:00:00Z" ELSE None,
                                now)]
    /\ UNCHANGED <<now, lockVars, routeVars, sysVars>>

\* message.to_json()
WireToJson ==
    /\ wire.pc = "built"
    /\ wire' = [wire EXCEPT !.pc = "text", !.text = ToJson(wire.msg)]
    /\ UNCHANGED <<now, lockVars, routeVars, sysVars>>

\* TaskMessage.from_json(text), at the receiver's time
WireFromJson ==
    /\ wire.pc = "text"
    /\ wire' = [wire EXCEPT !.pc = "parsed", !.back = FromJson(wire.text, now)]
    /\ UNCHANGED <<now, lockVars, routeVars, sysVars>>

\* Time passes between construction, sending and parsing.
WireTick ==
    /\ now < MaxTime
    /\ now' = now + 1
    /\ UNCHANGED <<wire, lockVars, routeVars, sysVars>>


(***************************************************************************)
(*                       Orchestrator.route_task                           *)
(***************************************************************************)

\* Bounds of the routing model: the words of a title and of a description.
MaxTitleWords == 2
MaxDescWords == 1

UpperCase == "ABCDEFGHIJKLMNOPQRSTUVWXYZ"
LowerCase == "abcdefghijklmnopqrstuvwxyz"

\* str.lower() of one character.
LowerChar(c) ==
    IF \E i \in 1..Len(UpperCase) : SubSeq(UpperCase, i, i) = c
    THEN LET i == CHOOSE i \in 1..Len(UpperCase) : SubSeq(UpperCase, i, i) = c
         IN SubSeq(LowerCase, i, i)
    ELSE c

RECURSIVE LowerFrom(_, _)
LowerFrom(s, i) ==
    IF i > Len(s) THEN "" ELSE LowerChar(SubSeq(s, i, i)) \o LowerFrom(s, i + 1)

\* str.lower()
Lower(s) == LowerFrom(s, 1)

\* kw in s: kw occurs somewhere inside s.
Contains(s, kw) ==
    \E i \in 1..(Len(s) - Len(kw) + 1) : SubSeq(s, i, i + Len(kw) - 1) = kw

\* route_task's rule table, in declaration order.
RoutingRules ==
    <<[keywords |-> <<"architecture", "design", "review", "refactor">>,
       agent_type |-> "architect"],
      [keywords |-> <<"implement", "code", "fix", "bug", "feature">>,
       agent_type |-> "coder"],
      [keywords |-> <<"research", "search", "find", "investigate">>,
       agent_type |-> "researcher"],
      [keywords |-> <<"test", "validate", "verify", "coverage">>,
       agent_type |-> "tester"],
      [keywords |-> <<"deploy", "infrastructure", "docker", "kubernetes">>,
       agent_type |-> "infra"]>>

\* A test of the first keyword of a rule only.
AnyKeyword_FirstOnly(combined, keywords) == Contains(combined, keywords[1])

\* any(kw in combined for kw in keywords)
AnyKeyword(combined, keywords) ==
    \E k \in 1..Len(keywords) : Contains(combined, keywords[k])

\* The loop over the rules from rule i on, then the default.
RECURSIVE RouteFrom(_, _)
RouteFrom_OffByOne(combined, i) ==
    IF i >= Len(RoutingRules) THEN "coder"
    ELSE IF AnyKeyword(combined, RoutingRules[i].keywords)
         THEN RoutingRules[i].agent_type
         ELSE RouteFrom(combined, i + 1)

RouteFrom(combined, i) ==
    IF i > Len(RoutingRules) THEN "coder"
    ELSE IF AnyKeyword(combined, RoutingRules[i].keywords)
         THEN RoutingRules[i].agent_type
         ELSE RouteFrom(combined, i + 1)

\* Orchestrator.route_task(task): it reads task.title and task.description
\* and nothing else.
RouteTask(title, description) ==
    RouteFrom(Lower(title) \o " " \o Lower(description), 1)

\* The words titles and descriptions are made of.
Words ==
    {"Deploy", "deployment", "latest", "Redesign", "research"}

\* The texts of at most n words.
RECURSIVE Texts(_)
Texts(n) ==
    IF n = 0 THEN {""}
    ELSE Texts(n - 1) \cup Words
            \cup {t \o " " \o w : t \in Texts(n - 1) \ {""}, w \in Words}

IdleRoute == [calls |-> "none", title |-> "", description |-> "",
              returned |-> "none", before |-> "none"]

\* route_task is called on a task and returns; the value the call before
\* returned is kept beside the new one.
RouteTaskCall(title, description) ==
    /\ route.calls # "returned"
    /\ route' = [calls |-> "returned", title |-> title,
                 description |-> description,
                 returned |-> RouteTask(title, description),
                 before |-> route.before]
    /\ UNCHANGED <<now, lockVars, wireVars, health, sysVars>>

\* The caller has taken the value; the next call may come.
RouteTaskDone ==
    /\ route.calls = "returned"
    /\ route' = [IdleRoute EXCEPT !.calls = "taken", !.before = route.returned]
    /\ UNCHANGED <<now, lockVars, wireVars, health, sysVars>>

(***************************************************************************)
(*              Orchestrator, broker adapter, store, agents                *)
(***************************************************************************)

\* Bounds of the system model: messages published, tasks created, agents
\* spawned.
MaxPublished == 2
MaxTasks == 1
MaxAgents == 1

\* str(uuid4()): the k-th identifier drawn for a task, for an agent, for a
\* message and for a correlation. Each differs from every other.
TaskUuid(k) == "t" \o ToString(k)
AgentUuid(k) == "a" \o ToString(k)
MessageUuid(k) == "m" \o ToString(k)
CorrelationUuid(k) == "c" \o ToString(k)

TaskPriorities == {"low", "normal", "high", "critical"}
AgentTypes == {"coder", "infra"}

\* RabbitMQClient.DEFAULT_QUEUE and HIGH_PRIORITY_QUEUE.
DefaultQueue == "tasks.default"
HighPriorityQueue == "tasks.high_priority"
QueueNames == {DefaultQueue, HighPriorityQueue}

\* d with d[k] = v, as a Python dict assignment.
Put(d, k, v) == (k :> v) @@ d

\* The empty Python dict.
EmptyDict == [k \in {} |-> None]

\* A Task dataclass whose status defaults to queued.
Task_BornQueued(task_id, title, priority, t) ==
    [task_id |-> task_id, title |-> title, description |-> "",
     status |-> "queued", priority |-> priority, assigned_agent |-> None,
     parent_task_id |-> None, created_at |-> Stamp(t), updated_at |-> Stamp(t),
     started_at |-> None, completed_at |-> None,
     tags |-> PyList(<<>>), metadata |-> PyDict(<<>>)]

\* The dataclass constructor Task(task_id=..., title=..., priority=...) at
\* clock value t, with the defaults of the other fields and __post_init__.
Task(task_id, title, priority, t) ==
    [task_id |-> task_id, title |-> title, description |-> "",
     status |-> "pending", priority |-> priority, assigned_agent |-> None,
     parent_task_id |-> None, created_at |-> Stamp(t), updated_at |-> Stamp(t),
     started_at |-> None, completed_at |-> None,
     tags |-> PyList(<<>>), metadata |-> PyDict(<<>>)]

\* An entry of DECISIONS.jsonl (kind decision) or FAILURES.jsonl (kind
\* failure): who wrote it, for which task, and its decision_type or message.
AuditEntry(kind, agent, task_id, what) ==
    [kind |-> kind, agent |-> agent, task_id |-> task_id, what |-> what]

\* An entry of VELOCITY.jsonl.
VelocityEntry(m) ==
    [task_id |-> m.task_id, agent |-> m.source_agent,
     duration_ms |-> DictGet(m.payload, "duration_ms", PyInt("0")),
     success |-> (m.action = "task.complete")]

\* A publish that gives every message the middle hint.
WirePriority_Flat(priority) == 5

\* RabbitMQClient.publish: the priority hint on the wire.
WirePriority(priority) == IF priority = "normal" THEN 5 ELSE 9

\* The queue the exchange's bindings route a routing key to.
BoundQueue(routing_key) ==
    IF routing_key = "task.high" THEN HighPriorityQueue ELSE DefaultQueue

\* RabbitMQClient.publish: the queues after message m went out under
\* routing_key, as a persistent message whose body is m.to_json().
Publish(qs, m, routing_key) ==
    [qs EXCEPT ![BoundQueue(routing_key)] =
        Append(@, [body |-> ToJson(m), hint |-> WirePriority(m.priority),
                   persistent |-> TRUE, routing_key |-> routing_key])]

\* A publish_task that would send every message under task.high.
PublishTaskRoutingKey_AlwaysHigh(priority) == "task.high"

\* RabbitMQClient.publish_task: the routing key it derives from priority.
PublishTaskRoutingKey(priority) ==
    IF priority = "high" THEN "task.high" ELSE "task.default"

\* Orchestrator.assign_task: the routing_key it computes and never passes on.
AssignTaskRoutingKey(priority) ==
    IF priority \in {"high", "critical"} THEN "task.high" ELSE "task.default"

\* The TaskMessage publish_task constructs at clock value t, with uuid4()
\* values message_id and fresh for the message id and a correlation id not
\* given.
PublishTaskMessage(message_id, fresh, task_id, action, payload, source_agent, target_agent, priority, correlation_id, t) ==
    TaskMessage(message_id,
                IF correlation_id = None THEN fresh ELSE correlation_id,
                task_id, source_agent, target_agent, action, payload,
                priority, None, t)

\* RabbitMQClient.publish_task: the message goes out under the routing key
\* of its priority.
PublishTask(qs, message_id, fresh, task_id, action, payload, source_agent, target_agent, priority, correlation_id, t) ==
    Publish(qs,
            PublishTaskMessage(message_id, fresh, task_id, action, payload,
                               source_agent, target_agent, priority,
                               correlation_id, t),
            PublishTaskRoutingKey(priority))

\* The payload assign_task sends.
AssignPayload(task) ==
    PyDict(<<PyItem("title", PyStr(task.title)),
             PyItem("description", PyStr(task.description)),
             PyItem("tags", task.tags),
             PyItem("metadata", task.metadata)>>)

\* TaskResult(...).to_dict(), with the duration handle_message measured.
ResultPayload(success, result, error) ==
    PyDict(<<PyItem("success", PyBool(success)),
             PyItem("result", result),
             PyItem("error", PyOptStr(error)),
             PyItem("duration_ms", PyInt("0")),
             PyItem("artifacts", PyList(<<>>))>>)

---------------------------------------------------------------------------
\* The servers the clients talk to come and go.

StoreFails ==
    /\ store_up
    /\ store_up' = FALSE
    /\ UNCHANGED <<now, lockVars, wireVars, routeVars, rtVars, published,
                   orchVars, storeVars, brokerVars, agents, logVars>>

StoreRecovers ==
    /\ ~store_up
    /\ store_up' = TRUE
    /\ UNCHANGED <<now, lockVars, wireVars, routeVars, rtVars, published,
                   orchVars, storeVars, brokerVars, agents, logVars>>

---------------------------------------------------------------------------
\* Orchestrator operations.

\* Orchestrator.start(): connect, write the orchestrator's status, begin
\* consuming the default queue. An unreachable store raises before
\* _running is set.
OrchStart ==
    /\ ~orch.running
    /\ store_up
    /\ orch' = [orch EXCEPT !.running = TRUE, !.consuming = TRUE]
    /\ agent_status' = Put(agent_status, "orchestrator", "idle")
    /\ UNCHANGED <<now, lockVars, wireVars, routeVars, rtVars, envVars, published, tasks,
                   agent_classes, snap, context, brokerVars, agents, logVars>>

\* Orchestrator.register_agent_class(agent_type, agent_class)
RegisterAgentClass(agent_type) ==
    /\ agent_type \notin agent_classes
    /\ agent_classes' = agent_classes \cup {agent_type}
    /\ UNCHANGED <<now, lockVars, wireVars, routeVars, rtVars, envVars, published, orch,
                   tasks, storeVars, brokerVars, agents, logVars>>

\* Orchestrator.create_task(title, priority=priority): the Task enters the
\* registry; the snapshot write raises when the store is unreachable, and
\* then no decision is logged.
CreateTask(title, priority) ==
    /\ Cardinality(DOMAIN tasks) < MaxTasks
    /\ LET task == Task(TaskUuid(Cardinality(DOMAIN tasks) + 1), title,
                        priority, now)
       IN /\ tasks' = Put(tasks, task.task_id, task)
          /\ IF store_up
             THEN /\ snap' = Put(snap, task.task_id, task)
                  /\ audit' = Append(audit,
                        AuditEntry("decision", "orchestrator", task.task_id,
                                   "task_creation"))
             ELSE UNCHANGED <<snap, audit>>
    /\ UNCHANGED <<now, lockVars, wireVars, routeVars, rtVars, envVars, published,
                   orch, agent_classes, context, agent_status, brokerVars,
                   agents, velocity>>

\* Orchestrator.assign_task(task, agent_type) on a task of the registry,
\* whatever its status: the Task is changed in memory, then the snapshot is
\* written (raises when the store is unreachable), then the message is
\* published (raises when the broker is unreachable), then the decision is
\* logged.
AssignTask(task_id, agent_type) ==
    /\ task_id \in DOMAIN tasks
    /\ published < MaxPublished
    /\ LET task == [tasks[task_id] EXCEPT !.status = "queued",
                                          !.assigned_agent = agent_type,
                                          !.updated_at = Stamp(now)]
       IN /\ tasks' = Put(tasks, task_id, task)
          /\ IF store_up
             THEN /\ snap' = Put(snap, task_id, task)
                  /\ IF broker_up
                     THEN /\ queues' = PublishTask(queues,
                                   MessageUuid(published + 1),
                                   CorrelationUuid(published + 1),
                                   task_id, "task.assign", AssignPayload(task),
                                   "orchestrator", agent_type, task.priority,
                                   None, now)
                          /\ published' = published + 1
                          /\ audit' = Append(audit,
                                AuditEntry("decision", "orchestrator", task_id,
                                           "task_delegation"))
                     ELSE UNCHANGED <<queues, published, audit>>
             ELSE UNCHANGED <<snap, queues, published, audit>>
    /\ UNCHANGED <<now, lockVars, wireVars, routeVars, rtVars, envVars, orch,
                   agent_classes, context, agent_status, unacked, agents,
                   velocity>>

---------------------------------------------------------------------------
\* The consumer RabbitMQClient.consume registers for the Orchestrator on
\* the default queue, with prefetch_count 1.

NoDelivery == [body |-> <<>>, hint |-> 0, persistent |-> FALSE, routing_key |-> None]
NoUnacked == [state |-> "none", delivery |-> NoDelivery]

\* The position in queue q of the message the broker delivers next: the
\* oldest one among those of the highest priority hint.
NextDelivery(q) ==
    CHOOSE i \in 1..Len(q) :
        /\ \A j \in 1..Len(q) : q[j].hint <= q[i].hint
        /\ \A j \in 1..(i - 1) : q[j].hint < q[i].hint

\* Sequence q without its i-th element.
Without(q, i) == SubSeq(q, 1, i - 1) \o SubSeq(q, i + 1, Len(q))

\* message.process() of aio_pika, called without arguments: requeue is
\* False, so a message whose handler raised is rejected and discarded.
ProcessRequeue == FALSE

\* The broker hands the next message of the default queue to the consumer.
OrchDeliver ==
    /\ orch.consuming
    /\ unacked.state = "none"
    /\ queues[DefaultQueue] # <<>>
    /\ LET i == NextDelivery(queues[DefaultQueue])
       IN /\ unacked' = [state |-> "delivered",
                         delivery |-> queues[DefaultQueue][i]]
          /\ queues' = [queues EXCEPT ![DefaultQueue] = Without(@, i)]
    /\ UNCHANGED <<now, lockVars, wireVars, routeVars, rtVars, envVars, published,
                   orchVars, storeVars, agents, logVars>>

\* Orchestrator._handle_task_complete(m): the result of the callback
\* ("returned" or "raised") with the registry, snapshots and metrics after it.
HandleTaskComplete(m) ==
    LET known == m.task_id \in DOMAIN tasks
        task == [tasks[m.task_id] EXCEPT !.status = "completed",
                                         !.completed_at = Stamp(now),
                                         !.updated_at = Stamp(now)]
        stored == known => store_up
    IN [state |-> IF stored THEN "returned" ELSE "raised",
        tasks |-> IF known THEN Put(tasks, m.task_id, task) ELSE tasks,
        snap |-> IF known /\ store_up THEN Put(snap, m.task_id, task) ELSE snap,
        context |-> context,
        velocity |-> IF stored THEN Append(velocity, VelocityEntry(m))
                     ELSE velocity]

\* A _handle_task_fail that looks the task up without asking whether the
\* registry has it: the lookup of an unknown id raises KeyError.
HandleTaskFail_NoLookup(m) ==
    [state |-> IF m.task_id \in DOMAIN tasks /\ store_up THEN "returned"
               ELSE "raised",
     tasks |-> tasks, snap |-> snap, context |-> context,
     velocity |-> velocity]

\* Orchestrator._handle_task_fail(m)
HandleTaskFail(m) ==
    LET known == m.task_id \in DOMAIN tasks
        task == [tasks[m.task_id] EXCEPT !.status = "failed",
                                         !.updated_at = Stamp(now)]
    IN [state |-> IF known => store_up THEN "returned" ELSE "raised",
        tasks |-> IF known THEN Put(tasks, m.task_id, task) ELSE tasks,
        snap |-> IF known /\ store_up THEN Put(snap, m.task_id, task) ELSE snap,
        context |-> context,
        velocity |-> velocity]

\* Orchestrator._handle_task_progress(m)
HandleTaskProgress(m) ==
    [state |-> IF store_up THEN "returned" ELSE "raised",
     tasks |-> tasks,
     snap |-> snap,
     context |-> IF store_up /\ m.task_id \in DOMAIN context
                 THEN Put(context, m.task_id,
                          [context[m.task_id] EXCEPT
                              !.progress = DictGet(m.payload, "progress", PyInt("0"))])
                 ELSE context,
     velocity |-> velocity]

\* A _handle_message that takes every action it does not know for a
\* completion.
HandleMessageOrch_ElseComplete(m) ==
    IF m.action = "task.fail" THEN HandleTaskFail(m)
    ELSE IF m.action = "task.progress" THEN HandleTaskProgress(m)
    ELSE HandleTaskComplete(m)

\* Orchestrator._handle_message(m): dispatch on the action; any other
\* action is logged as unknown and the callback returns.
HandleMessageOrch(m) ==
    IF m.action = "task.complete" THEN HandleTaskComplete(m)
    ELSE IF m.action = "task.fail" THEN HandleTaskFail(m)
    ELSE IF m.action = "task.progress" THEN HandleTaskProgress(m)
    ELSE [state |-> "returned", tasks |-> tasks, snap |-> snap,
          context |-> context, velocity |-> velocity]

\* process_message: parse the body and run the callback on it.
OrchHandle ==
    /\ unacked.state = "delivered"
    /\ LET after == HandleMessageOrch(FromJson(unacked.delivery.body, now))
       IN /\ unacked' = [unacked EXCEPT !.state = after.state]
          /\ tasks' = after.tasks
          /\ snap' = after.snap
          /\ context' = after.context
          /\ velocity' = after.velocity
    /\ UNCHANGED <<now, lockVars, wireVars, routeVars, rtVars, envVars, published, orch,
                   agent_classes, agent_status, queues, agents, audit>>

\* Leaving message.process(): ack when the callback returned; when it
\* raised, reject, which puts the message back only if requeue was asked.
OrchSettle ==
    /\ unacked.state \in {"returned", "raised"}
    /\ unacked' = NoUnacked
    /\ queues' = IF unacked.state = "raised" /\ ProcessRequeue
                 THEN [queues EXCEPT ![DefaultQueue] = <<unacked.delivery>> \o @]
                 ELSE queues
    /\ UNCHANGED <<now, lockVars, wireVars, routeVars, rtVars, envVars, published,
                   orchVars, storeVars, agents, logVars>>

---------------------------------------------------------------------------
\* Agents.

\* AgentStatus values.
IDLE == "idle"
BUSY == "busy"
ERROR == "error"
OFFLINE == "offline"

\* The agent id BaseAgent.__init__ makes of the k-th agent uuid.
AgentId(agent_type, k) == agent_type \o "-" \o AgentUuid(k)

\* The actions execute_task of an agent class dispatches on.
Capabilities(agent_type) ==
    IF agent_type = "coder"
    THEN {"task.assign", "code.generate", "code.fix", "code.refactor", "code.document"}
    ELSE {"task.assign", "infra.deploy", "infra.provision"}

\* A spawn_agent that starts an agent of the base class for a type it has
\* no class for.
SpawnAgent_AnyType(agent_type) ==
    /\ Cardinality(DOMAIN agents) < MaxAgents
    /\ LET agent_id == AgentId(agent_type, Cardinality(DOMAIN agents) + 1)
       IN /\ agents' = Put(agents, agent_id,
                           [agent_type |-> agent_type, status |-> IDLE,
                            current_task_id |-> None, running |-> TRUE])
          /\ agent_status' = Put(agent_status, agent_id, IDLE)
          /\ orch' = [orch EXCEPT !.spawned = agent_id]
    /\ UNCHANGED <<now, lockVars, wireVars, routeVars, rtVars, envVars, published,
                   tasks, agent_classes, snap, context, brokerVars, logVars>>

\* Orchestrator.spawn_agent(agent_type): an unknown type raises ValueError;
\* agent.start() raises when the store is unreachable, and then the agent
\* is not entered in _agents.
SpawnAgent(agent_type) ==
    /\ IF agent_type \notin agent_classes
       THEN /\ orch' = [orch EXCEPT !.spawned = "ValueError: Unknown agent type"]
            /\ UNCHANGED <<agents, agent_status>>
       ELSE /\ Cardinality(DOMAIN agents) < MaxAgents
            /\ LET agent_id == AgentId(agent_type, Cardinality(DOMAIN agents) + 1)
               IN IF store_up
                  THEN /\ agents' = Put(agents, agent_id,
                                        [agent_type |-> agent_type,
                                         status |-> IDLE,
                                         current_task_id |-> None,
                                         running |-> TRUE])
                       /\ agent_status' = Put(agent_status, agent_id, IDLE)
                       /\ orch' = [orch EXCEPT !.spawned = agent_id]
                  ELSE /\ orch' = [orch EXCEPT !.spawned = "ConnectionError"]
                       /\ UNCHANGED <<agents, agent_status>>
    /\ UNCHANGED <<now, lockVars, wireVars, routeVars, rtVars, envVars, published,
                   tasks, agent_classes, snap, context, brokerVars, logVars>>

\* One round of BaseAgent._heartbeat_loop: write the status, swallowing the
\* error when the store is unreachable.
Heartbeat(agent_id) ==
    /\ agent_id \in DOMAIN agents
    /\ agents[agent_id].running
    /\ store_up
    /\ agent_status' = Put(agent_status, agent_id, agents[agent_id].status)
    /\ UNCHANGED <<now, lockVars, wireVars, routeVars, rtVars, envVars, published,
                   orchVars, snap, context, brokerVars, agents, logVars>>

\* stop() of an agent that spawn_agent created. The agent was constructed
\* with the Orchestrator's own clients (redis_client=self._redis,
\* rabbitmq_client=self._rabbitmq), so the disconnect() calls at the end of
\* stop() close the Orchestrator's connections: the broker connection goes
\* with its channel, its queue objects and the consumer registered on it;
\* the store client connects again on its next use. An unreachable store
\* ends stop() at the status write, before the disconnects.
StopAgent(agent_id) ==
    /\ agent_id \in DOMAIN agents
    /\ agents[agent_id].running
    /\ agents' = [agents EXCEPT ![agent_id].running = FALSE,
                                ![agent_id].status = OFFLINE]
    /\ IF store_up
       THEN /\ agent_status' = Put(agent_status, agent_id, OFFLINE)
            /\ orch' = [orch EXCEPT !.consuming = FALSE]
       ELSE UNCHANGED <<agent_status, orch>>
    /\ UNCHANGED <<now, lockVars, wireVars, routeVars, rtVars, envVars, published,
                   tasks, agent_classes, snap, context, brokerVars, logVars>>

\* The messages a caller hands to handle_message of agent agent_id: an
\* assignment or an action the agent does not know, for a task of the
\* registry.
AgentMessages(agent_id) ==
    { TaskMessage("m-" \o task_id, "c-" \o task_id, task_id, "orchestrator",
                  agents[agent_id].agent_type, action,
                  AssignPayload(tasks[task_id]), "normal", None, now) :
        task_id \in DOMAIN tasks, action \in {"task.assign", "task.unknown"} }

\* What execute_task does with the message: "success" or "failure" for the
\* TaskResult it returns, "raise" for an exception; run says how the work
\* itself ends when the agent knows the action.
ExecuteTask(agent_type, m, run) ==
    IF m.action \in Capabilities(agent_type) THEN run ELSE "failure"

\* An execute_task whose else branch reports the work's own error.
FailureText_Generic(agent_type, m) == "generation failed"

\* The error text of a TaskResult with success False that execute_task
\* returns: the one for an action it does not dispatch on, or the work's own.
FailureText(agent_type, m) ==
    IF m.action \in Capabilities(agent_type)
    THEN "generation failed"
    ELSE "Unknown action: " \o m.action

\* A handle_message that reports every outcome as a success.
ResultOf_AlwaysDone(agent_type, outcome, m, error) ==
    ResultPayload(TRUE, PyStr("done"), None)

\* The TaskResult handle_message sends for an outcome of execute_task;
\* error is str(e) of the exception it caught, if it caught one.
ResultOf(agent_type, outcome, m, error) ==
    IF outcome = "success" THEN ResultPayload(TRUE, PyStr("done"), None)
    ELSE IF outcome = "failure"
    THEN ResultPayload(FALSE, PyNone, FailureText(agent_type, m))
    ELSE ResultPayload(FALSE, PyNone, error)

\* BaseAgent.handle_message(m). The status and context writes before the
\* try block raise when the store is unreachable, leaving the agent BUSY.
\* Inside, the result is published (a raise of execute_task is turned into
\* a failure result and logged after it was sent), and the finally block
\* resets the agent.
HandleMessage(agent_id, m, run) ==
    /\ agents[agent_id].running
    /\ published < MaxPublished
    /\ IF ~store_up
       THEN /\ agents' = [agents EXCEPT ![agent_id].status = BUSY,
                                        ![agent_id].current_task_id = m.task_id]
            /\ UNCHANGED <<published, context, agent_status, queues, audit>>
       ELSE LET outcome == ExecuteTask(agents[agent_id].agent_type, m, run)
            IN /\ context' = Put(context, m.task_id,
                                 [assigned_agent |-> agent_id,
                                  started_at |-> Stamp(now),
                                  action |-> m.action,
                                  status |-> "in_progress",
                                  progress |-> PyNone])
               /\ published' = published + 1
               /\ queues' = PublishTask(queues, MessageUuid(published + 1),
                                CorrelationUuid(published + 1), m.task_id,
                                IF outcome = "success" THEN "task.complete"
                                                       ELSE "task.fail",
                                ResultOf(agents[agent_id].agent_type, outcome, m,
                                         "boom"),
                                agent_id, "orchestrator",
                                "normal", m.correlation_id, now)
               /\ audit' = IF outcome = "raise"
                           THEN Append(audit, AuditEntry("failure", agent_id,
                                                         m.task_id, "boom"))
                           ELSE audit
               /\ agents' = [agents EXCEPT ![agent_id].status = IDLE,
                                           ![agent_id].current_task_id = None]
               /\ agent_status' = Put(agent_status, agent_id, IDLE)
    /\ UNCHANGED <<now, lockVars, wireVars, routeVars, rtVars, envVars, orchVars,
                   snap, unacked, velocity>>

(***************************************************************************)
(*        One Agent Runtime, step by step (src/src/core/agent_base.py)     *)
(*                                                                         *)
(* HandleMessage above is handle_message run without interruption. Here   *)
(* the same method is cut at its awaits, so that stop(), the heartbeat     *)
(* loop and outages of store and broker fall between its steps.            *)
(***************************************************************************)

\* Settings.heartbeat_interval_seconds
heartbeat_interval_seconds == 30

\* Bound of the runtime model: heartbeat intervals the clock runs through.
MaxBeats == 2
MaxCalls == 1

\* The agent of the runtime model, constructed and not yet started.
RuntimeAgentId == AgentId("coder", 1)
OfflineAgent ==
    [agent_type |-> "coder", status |-> OFFLINE, current_task_id |-> None,
     running |-> FALSE]

\* No handle_message call was made yet.
IdleCall ==
    [pc |-> "idle", m |-> NoMessage, run |-> "none", outcome |-> "none",
     error |-> None, trace |-> <<>>, sent |-> <<>>, audit0 |-> 0,
     store_failed |-> FALSE, publish_failed |-> FALSE, stopped |-> FALSE,
     after_stop |-> FALSE, ended |-> "none"]

\* The heartbeat task does not exist.
NoHeartbeat == [pc |-> "none", wake |-> 0, last |-> 0, failed |-> FALSE, errors |-> 0]

\* conn: the agent's RabbitMQClient holds a connection and its exchange.
\* held: the status value a heartbeat write has taken and not yet stored.
IdleRuntime == [call |-> IdleCall, hb |-> NoHeartbeat, stop |-> "none", calls |-> 0, conn |-> FALSE, held |-> None]

\* The messages handed to handle_message: the agent's generic action and one
\* it does not know, for the task of the test fixture.
RuntimeMessages(agent_type) ==
    { TaskMessage("msg-123", "corr-123", "task-123", "orchestrator",
                  agent_type, action, PyDict(<<>>), "normal", None, now) :
        action \in {"task.assign", "unknown.verb"} }

RuntimeRuns == {"success", "failure", "raise"}

\* The servers come and go under the runtime.
RtStoreFlips ==
    /\ store_up' = ~store_up
    /\ UNCHANGED <<now, lockVars, wireVars, routeVars, rtVars, published,
                   orchVars, storeVars, brokerVars, agents, logVars>>

RtBrokerFlips ==
    /\ broker_up' = ~broker_up
    /\ UNCHANGED <<now, lockVars, wireVars, routeVars, rt, envVars, published,
                   orchVars, storeVars, brokerVars, agents, logVars>>

\* BaseAgent.start(): the clients connect, which takes the broker (with the
\* broker unreachable start() raises there, before anything is set); IDLE
\* and _running are set, then the status is written; when that raises the
\* heartbeat task is never created.
RtStart(a) ==
    /\ broker_up
    /\ ~agents[a].running
    /\ agents[a].status = OFFLINE
    /\ rt.stop = "none"
    /\ agents' = [agents EXCEPT ![a].status = IDLE, ![a].running = TRUE]
    /\ IF store_up
       THEN /\ agent_status' = Put(agent_status, a, IDLE)
            /\ rt' = [rt EXCEPT !.conn = TRUE,
                                !.hb = [pc |-> "write", wake |-> now,
                                        last |-> now, failed |-> FALSE,
                                        errors |-> 0]]
       ELSE /\ rt' = [rt EXCEPT !.conn = TRUE]
            /\ UNCHANGED agent_status
    /\ UNCHANGED <<now, lockVars, wireVars, routeVars, broker_up, envVars,
                   published, orchVars, snap, context, brokerVars, logVars>>

\* A _heartbeat_loop without 'except Exception': an error of the status
\* write ends the task.
HbWrite_DiesOnError(a) ==
    /\ rt.hb.pc = "write"
    /\ agents[a].running
    /\ agent_status' = IF store_up THEN Put(agent_status, a, agents[a].status)
                       ELSE agent_status
    /\ rt' = [rt EXCEPT !.hb = [pc |-> IF store_up THEN "sleep" ELSE "ended",
                                wake |-> now + heartbeat_interval_seconds,
                                last |-> now, failed |-> ~store_up,
                                errors |-> rt.hb.errors]]
    /\ UNCHANGED <<now, lockVars, wireVars, routeVars, broker_up, envVars,
                   published, orchVars, snap, context, brokerVars, agents,
                   logVars>>

\* _heartbeat_loop, the try block: _update_status(), and on any error but
\* a cancellation the except block; either way sleep(interval) follows.
HbWrite(a) ==
    /\ rt.hb.pc = "write"
    /\ agents[a].running
    /\ agent_status' = IF store_up THEN Put(agent_status, a, agents[a].status)
                       ELSE agent_status
    /\ rt' = [rt EXCEPT !.hb = [pc |-> "sleep",
                                wake |-> now + heartbeat_interval_seconds,
                                last |-> now, failed |-> ~store_up,
                                errors |-> IF store_up THEN rt.hb.errors
                                           ELSE rt.hb.errors + 1]]
    /\ UNCHANGED <<now, lockVars, wireVars, routeVars, broker_up, envVars,
                   published, orchVars, snap, context, brokerVars, agents,
                   logVars>>

\* The same write in its two halves. _update_status evaluates
\* self._status.value when it calls set_agent_status; the HSET that carries
\* the value reaches the store only after the awaits inside the client
\* (taking a connection from the pool, opening one when none is free), and
\* other coroutines of the agent run in between.
HbCapture(a) ==
    /\ rt.hb.pc = "write"
    /\ agents[a].running
    /\ rt.held = None
    /\ rt' = [rt EXCEPT !.held = agents[a].status]
    /\ UNCHANGED <<now, lockVars, wireVars, routeVars, broker_up, envVars,
                   published, orchVars, storeVars, brokerVars, agents, logVars>>

HbLand(a) ==
    /\ rt.hb.pc = "write"
    /\ rt.held # None
    /\ agent_status' = IF store_up THEN Put(agent_status, a, rt.held)
                       ELSE agent_status
    /\ rt' = [rt EXCEPT !.held = None,
                        !.hb = [pc |-> "sleep",
                                wake |-> now + heartbeat_interval_seconds,
                                last |-> now, failed |-> ~store_up,
                                errors |-> IF store_up THEN rt.hb.errors
                                           ELSE rt.hb.errors + 1]]
    /\ UNCHANGED <<now, lockVars, wireVars, routeVars, broker_up, envVars,
                   published, orchVars, snap, context, brokerVars, agents,
                   logVars>>

\* _heartbeat_loop: sleep(interval) is over, the loop tests _running again.
HbWake(a) ==
    /\ rt.hb.pc = "sleep"
    /\ now >= rt.hb.wake
    /\ rt' = [rt EXCEPT !.hb.pc = IF agents[a].running THEN "write" ELSE "ended"]
    /\ UNCHANGED <<now, lockVars, wireVars, routeVars, broker_up, envVars,
                   published, orchVars, storeVars, brokerVars, agents, logVars>>

\* Time passes, one heartbeat interval at most at a time; a write that is
\* under way and a sleeper that is due run before more time passes.
RtTick ==
    /\ now < MaxBeats * heartbeat_interval_seconds
    /\ rt.hb.pc # "write"
    /\ ~(rt.hb.pc = "sleep" /\ now >= rt.hb.wake)
    /\ now' = now + heartbeat_interval_seconds
    /\ UNCHANGED <<lockVars, wireVars, routeVars, sysVars>>

---------------------------------------------------------------------------
\* Replies reaching the Orchestrator from an agent it did not assign to.

\* The task ids a reply can name: the registry's, and the one of a message
\* the agent was handed by someone else.
ReplyTaskIds == DOMAIN tasks \cup {"task-123"}

ReplyActions == {"task.complete", "task.fail", "task.progress"}

\* The actions of the messages reaching the Orchestrator's queue: the
\* replies, and one the Orchestrator does not dispatch on.
ArrivingActions == ReplyActions \cup {"task.cancel"}

\* The payload of a reply: a TaskResult, or a progress report.
ReplyPayload(action) ==
    IF action = "task.complete" THEN ResultPayload(TRUE, PyStr("done"), None)
    ELSE IF action = "task.fail" THEN ResultPayload(FALSE, PyNone, "boom")
    ELSE PyDict(<<PyItem("progress", PyInt("50"))>>)

\* An agent publishes a reply about task_id to the orchestrator.
AgentReply(task_id, action) ==
    /\ published < MaxPublished
    /\ queues' = PublishTask(queues, MessageUuid(published + 1),
                             CorrelationUuid(published + 1), task_id, action,
                             ReplyPayload(action), RuntimeAgentId,
                             "orchestrator", "normal", "corr-123", now)
    /\ published' = published + 1
    /\ UNCHANGED <<now, lockVars, wireVars, routeVars, rtVars, envVars,
                   orchVars, storeVars, unacked, agents, logVars>>

---------------------------------------------------------------------------
\* handle_message(m) of agent a, from await to await.

\* A _send_result that leaves the correlation id to publish_task.
SendResultMessage_FreshCorrelation(a, original, action, payload, k, t) ==
    PublishTaskMessage(MessageUuid(k), CorrelationUuid(k), original.task_id,
                       action, payload, a, "orchestrator", "normal", None, t)

\* BaseAgent._send_result(original, result): the message it has publish_task
\* construct, as the k-th message published, at clock value t.
SendResultMessage(a, original, action, payload, k, t) ==
    PublishTaskMessage(MessageUuid(k), CorrelationUuid(k), original.task_id,
                       action, payload, a, "orchestrator", "normal",
                       original.correlation_id, t)

\* The call begins: BUSY and the task id are set, and the first status
\* write is about to go out.
HmEnter(a, m) ==
    /\ rt.call.pc \in {"idle", "done"}
    /\ rt.calls < MaxCalls
    /\ agents' = [agents EXCEPT ![a].status = BUSY,
                                ![a].current_task_id = m.task_id]
    /\ rt' = [rt EXCEPT !.call = [IdleCall EXCEPT !.pc = "status", !.m = m,
                                                  !.audit0 = Len(audit),
                                                  !.stopped = rt.stop = "offline",
                                                  !.after_stop = rt.stop \in {"done", "raised"}],
                        !.calls = rt.calls + 1]
    /\ UNCHANGED <<now, lockVars, wireVars, routeVars, broker_up, envVars,
                   published, orchVars, storeVars, brokerVars, logVars>>

\* await self._update_status(), before the try block: an unreachable store
\* ends the call with the error.
HmStatus(a) ==
    /\ rt.call.pc = "status"
    /\ IF store_up
       THEN /\ agent_status' = Put(agent_status, a, agents[a].status)
            /\ rt' = [rt EXCEPT !.call.pc = "context"]
       ELSE /\ rt' = [rt EXCEPT !.call.pc = "done", !.call.ended = "raised",
                                !.call.store_failed = TRUE]
            /\ UNCHANGED agent_status
    /\ UNCHANGED <<now, lockVars, wireVars, routeVars, broker_up, envVars,
                   published, orchVars, snap, context, brokerVars, agents,
                   logVars>>

\* await self._redis.set_task_context(...), before the try block.
HmContext(a) ==
    /\ rt.call.pc = "context"
    /\ IF store_up
       THEN /\ context' = Put(context, rt.call.m.task_id,
                              [assigned_agent |-> a,
                               started_at |-> Stamp(now),
                               action |-> rt.call.m.action,
                               status |-> "in_progress",
                               progress |-> PyNone])
            /\ rt' = [rt EXCEPT !.call.pc = "execute"]
       ELSE /\ rt' = [rt EXCEPT !.call.pc = "done", !.call.ended = "raised",
                                !.call.store_failed = TRUE]
            /\ UNCHANGED context
    /\ UNCHANGED <<now, lockVars, wireVars, routeVars, broker_up, envVars,
                   published, orchVars, snap, agent_status, brokerVars,
                   agents, logVars>>

\* await self.execute_task(message): it returns a TaskResult, or raises
\* and the except block takes over with the exception's text. run is how
\* the work ends when the agent knows the action.
HmExecute(a, run) ==
    /\ rt.call.pc = "execute"
    /\ LET outcome == ExecuteTask(agents[a].agent_type, rt.call.m, run)
       IN rt' = [rt EXCEPT !.call.pc = "send",
                           !.call.run = run,
                           !.call.outcome = outcome,
                           !.call.error = IF outcome = "raise" THEN "boom"
                                                               ELSE None]
    /\ UNCHANGED <<now, lockVars, wireVars, routeVars, broker_up, envVars,
                   published, orchVars, storeVars, brokerVars, agents, logVars>>

\* await self._send_result(...): publish connects first when the client has
\* no exchange, and the publish goes through when the broker is reachable.
\* In the try block it sends the TaskResult
\* execute_task returned; when publishing raises there, the except block
\* takes over with that error. In the except block it sends a failure with
\* the error text, and _log_failure is next; when publishing raises here
\* the error leaves the method through the finally block and nothing is
\* logged.
HmSend(a) ==
    /\ rt.call.pc = "send"
    /\ LET c == rt.call
           handling == c.error # None
           reply == SendResultMessage(a, c.m,
                        IF ~handling /\ c.outcome = "success"
                        THEN "task.complete" ELSE "task.fail",
                        ResultOf(agents[a].agent_type,
                                 IF handling THEN "raise" ELSE c.outcome,
                                 c.m, c.error),
                        published + 1, now)
       IN IF broker_up
          THEN /\ queues' = Publish(queues, reply,
                                    PublishTaskRoutingKey(reply.priority))
               /\ published' = published + 1
               /\ rt' = [rt EXCEPT !.conn = TRUE,
                                   !.call.pc = IF handling THEN "log"
                                                           ELSE "finally",
                                   !.call.sent = Append(c.sent, reply),
                                   !.call.trace = Append(c.trace, "publish")]
          ELSE /\ rt' = IF handling
                        THEN [rt EXCEPT !.call.pc = "finally",
                                        !.call.publish_failed = TRUE,
                                        !.call.ended = "raised"]
                        ELSE [rt EXCEPT !.call.publish_failed = TRUE,
                                        !.call.error = "publish failed"]
               /\ UNCHANGED <<queues, published>>
    /\ UNCHANGED <<now, lockVars, wireVars, routeVars, broker_up, envVars,
                   orchVars, storeVars, unacked, agents, logVars>>

\* An except block that logs nothing.
HmLog_Nothing(a) ==
    /\ rt.call.pc = "log"
    /\ rt' = [rt EXCEPT !.call.pc = "finally"]
    /\ UNCHANGED <<now, lockVars, wireVars, routeVars, broker_up, envVars,
                   published, orchVars, storeVars, brokerVars, agents,
                   logVars>>

\* await self._log_failure(message, str(e)), the last statement of the
\* except block: the Failure entry is appended to FAILURES.jsonl.
HmLog(a) ==
    /\ rt.call.pc = "log"
    /\ audit' = Append(audit, AuditEntry("failure", a, rt.call.m.task_id,
                                         rt.call.error))
    /\ rt' = [rt EXCEPT !.call.pc = "finally",
                        !.call.trace = Append(rt.call.trace, "log")]
    /\ UNCHANGED <<now, lockVars, wireVars, routeVars, broker_up, envVars,
                   published, orchVars, storeVars, brokerVars, agents,
                   velocity>>

\* A handle_message without the finally block.
HmFinally_NoReset(a) ==
    /\ rt.call.pc = "finally"
    /\ rt' = [rt EXCEPT !.call.pc = "done",
                        !.call.ended = IF rt.call.ended = "raised"
                                       THEN "raised" ELSE "returned"]
    /\ UNCHANGED <<now, lockVars, wireVars, routeVars, broker_up, envVars,
                   published, orchVars, storeVars, brokerVars, agents, logVars>>

\* The finally block: IDLE, no current task, await self._update_status().
HmFinally(a) ==
    /\ rt.call.pc = "finally"
    /\ agents' = [agents EXCEPT ![a].status = IDLE,
                                ![a].current_task_id = None]
    /\ IF store_up
       THEN /\ agent_status' = Put(agent_status, a, IDLE)
            /\ rt' = [rt EXCEPT !.call.pc = "done",
                                !.call.ended = IF rt.call.ended = "raised"
                                               THEN "raised" ELSE "returned"]
       ELSE /\ rt' = [rt EXCEPT !.call.pc = "done", !.call.ended = "raised",
                                !.call.store_failed = TRUE]
            /\ UNCHANGED agent_status
    /\ UNCHANGED <<now, lockVars, wireVars, routeVars, broker_up, envVars,
                   published, orchVars, snap, context, brokerVars, logVars>>

---------------------------------------------------------------------------
\* stop() of agent a.

\* _running = False, the heartbeat task is cancelled and awaited: the
\* cancellation reaches it at its await and ends it.
StopBegin(a) ==
    /\ agents[a].running
    /\ rt.stop = "none"
    /\ agents' = [agents EXCEPT ![a].running = FALSE]
    /\ rt' = [rt EXCEPT !.stop = "offline",
                        !.hb.pc = IF rt.hb.pc = "none" THEN "none" ELSE "ended",
                        !.call.stopped = rt.call.pc \notin {"idle", "done"}]
    /\ UNCHANGED <<now, lockVars, wireVars, routeVars, broker_up, envVars,
                   published, orchVars, storeVars, brokerVars, logVars>>

\* OFFLINE, await self._update_status(), then both clients disconnect (they
\* connect again on their next use). An unreachable store ends stop() with
\* the error.
StopOffline(a) ==
    /\ rt.stop = "offline"
    /\ agents' = [agents EXCEPT ![a].status = OFFLINE]
    /\ IF store_up
       THEN /\ agent_status' = Put(agent_status, a, OFFLINE)
            /\ rt' = [rt EXCEPT !.stop = "done", !.conn = FALSE]
       ELSE /\ rt' = [rt EXCEPT !.stop = "raised"]
            /\ UNCHANGED agent_status
    /\ UNCHANGED <<now, lockVars, wireVars, routeVars, broker_up, envVars,
                   published, orchVars, snap, context, brokerVars, logVars>>

---------------------------------------------------------------------------
\* Orchestrator.get_system_health(), from check to check.

\* What a component's check can do: return True, return False, or raise.
\* The store's and the broker's answer True only when the server is
\* reachable; the secret store is not modelled, its check does any of the
\* three.
RedisPing == IF store_up THEN {"true"} ELSE {"false", "raise"}

RabbitmqPing == IF broker_up THEN {"true"} ELSE {"false", "raise"}

VaultPing == {"true", "false", "raise"}

\* health["components"][name]["status"] after a check.
ComponentStatus(outcome) ==
    IF outcome = "raise" THEN "error"
    ELSE IF outcome = "true" THEN "healthy" ELSE "unhealthy"

\* health["status"] after the check of the store or of the broker.
AfterCritical(status, outcome) ==
    IF outcome = "raise" THEN "unhealthy" ELSE status

\* A get_system_health for which every failing check downgrades to
\* degraded.
AfterVault_Overwrites(status, outcome) ==
    IF outcome = "raise" THEN "degraded" ELSE status

\* health["status"] after the check of the secret store.
AfterVault(status, outcome) ==
    IF outcome = "raise" /\ status = "healthy" THEN "degraded" ELSE status

\* No call was made yet.
IdleHealth ==
    [pc |-> "idle", status |-> "none", before_vault |-> "none",
     redis |-> "none", rabbitmq |-> "none", vault |-> "none",
     agents |-> "none"]

\* The call begins: health = {"status": "healthy", ..., "components": {}}.
HealthCall ==
    /\ health.pc \in {"idle", "returned", "raised"}
    /\ health' = [IdleHealth EXCEPT !.pc = "redis", !.status = "healthy"]
    /\ UNCHANGED <<now, lockVars, wireVars, route, sysVars>>

HealthRedis(outcome) ==
    /\ health.pc = "redis"
    /\ health' = [health EXCEPT !.pc = "rabbitmq",
                                !.redis = ComponentStatus(outcome),
                                !.status = AfterCritical(health.status, outcome)]
    /\ UNCHANGED <<now, lockVars, wireVars, route, sysVars>>

HealthRabbitmq(outcome) ==
    /\ health.pc = "rabbitmq"
    /\ health' = [health EXCEPT !.pc = "vault",
                                !.rabbitmq = ComponentStatus(outcome),
                                !.status = AfterCritical(health.status, outcome)]
    /\ UNCHANGED <<now, lockVars, wireVars, route, sysVars>>

HealthVault(outcome) ==
    /\ health.pc = "vault"
    /\ health' = [health EXCEPT !.pc = "agents",
                                !.vault = ComponentStatus(outcome),
                                !.before_vault = health.status,
                                !.status = AfterVault(health.status, outcome)]
    /\ UNCHANGED <<now, lockVars, wireVars, route, sysVars>>

\* health["agents"] = await self._redis.get_all_agent_statuses(), outside
\* any try block, and the return.
HealthAgents ==
    /\ health.pc = "agents"
    /\ health' = IF store_up
                 THEN [health EXCEPT !.pc = "returned", !.agents = agent_status]
                 ELSE [health EXCEPT !.pc = "raised"]
    /\ UNCHANGED <<now, lockVars, wireVars, route, sysVars>>

(***************************************************************************)
(*                          Specifications                                 *)
(***************************************************************************)

\* The groups a specification does not move stay as constructed.
QuietLock ==
    /\ locks = [n \in LockNames |-> NoLock]
    /\ proc = [p \in Holders |-> IdleProc]
    /\ grants = [n \in LockNames |-> 0]

QuietWire == wire = IdleWire

QuietRoute == route = IdleRoute /\ health = IdleHealth

\* The state after Orchestrator() was constructed, the servers being up.
QuietSys ==
    /\ store_up = TRUE
    /\ published = 0
    /\ orch = [running |-> FALSE, consuming |-> FALSE, spawned |-> "none"]
    /\ tasks = EmptyDict
    /\ snap = EmptyDict
    /\ context = EmptyDict
    /\ agent_status = EmptyDict
    /\ queues = [q \in QueueNames |-> <<>>]
    /\ unacked = NoUnacked
    /\ agent_classes = {}
    /\ audit = <<>>
    /\ velocity = <<>>
    /\ broker_up = TRUE
    /\ rt = IdleRuntime
    /\ agents = EmptyDict

InitLock ==
    /\ now = 0
    /\ QuietLock
    /\ QuietWire
    /\ QuietRoute
    /\ QuietSys

NextLock ==
    \/ \E p \in Holders, n \in LockNames, ttl \in Ttls : AcquireLockCall(p, n, ttl)
    \/ \E p \in Holders : AcquireLockSet(p)
    \/ \E p \in Holders, n \in LockNames : ReleaseLockCall(p, n)
    \/ \E p \in Holders : ReleaseLockGet(p)
    \/ \E p \in Holders : ReleaseLockDelete(p)
    \/ \E p \in Holders : LockReturn(p)
    \/ Tick

SpecLock == InitLock /\ [][NextLock]_vars

InitWire ==
    /\ now = 0
    /\ QuietLock
    /\ QuietWire
    /\ QuietRoute
    /\ QuietSys

NextWire ==
    \/ \E corr \in {"c1", "m1"}, src \in WireAgents, dst \in WireAgents,
          action \in WireActions, payload \in WirePayloads,
          priority \in WirePriorities, given \in BOOLEAN :
            WireConstruct(corr, src, dst, action, payload, priority, given)
    \/ WireToJson
    \/ WireFromJson
    \/ WireTick

SpecWire == InitWire /\ [][NextWire]_vars

InitRoute ==
    /\ now = 0
    /\ QuietLock
    /\ QuietWire
    /\ QuietRoute
    /\ QuietSys

NextRoute ==
    \/ \E title \in Texts(MaxTitleWords), description \in Texts(MaxDescWords) :
            RouteTaskCall(title, description)
    \/ RouteTaskDone

SpecRoute == InitRoute /\ [][NextRoute]_vars

\* The orchestrator with its broker, store and agents; servers may fail.
TaskIds == {TaskUuid(k) : k \in 1..MaxTasks}
Titles == {"Fix bug"}
Runs == {"success", "raise"}

Init ==
    /\ now = 0
    /\ QuietLock
    /\ QuietWire
    /\ QuietRoute
    /\ QuietSys

Faults ==
    \/ StoreFails
    \/ StoreRecovers

Operations ==
    \/ OrchStart
    \/ \E agent_type \in AgentTypes : RegisterAgentClass(agent_type)
    \/ \E agent_type \in AgentTypes : SpawnAgent(agent_type)
    \/ \E title \in Titles, priority \in TaskPriorities : CreateTask(title, priority)
    \/ \E task_id \in DOMAIN tasks, agent_type \in AgentTypes :
            AssignTask(task_id, agent_type)
    \/ \E agent_id \in DOMAIN agents : Heartbeat(agent_id)
    \/ \E agent_id \in DOMAIN agents, run \in Runs :
            \E m \in AgentMessages(agent_id) : HandleMessage(agent_id, m, run)

Consumer ==
    \/ OrchDeliver
    \/ OrchHandle
    \/ OrchSettle

Next ==
    \/ Faults
    \/ Operations
    \/ Consumer

Spec == Init /\ [][Next]_vars

\* The same system with servers that stay up, and an event loop that runs
\* the Orchestrator's start and its consumer whenever they can run.
FairNext ==
    \/ Operations
    \/ Consumer

\* Weak fairness of OrchHandle, with its enabling condition written out: the
\* callback runs on every delivery the consumer holds.
HandleFairness ==
    \/ []<>(unacked.state # "delivered")
    \/ []<><<OrchHandle>>_vars

Fairness ==
    /\ WF_vars(OrchStart)
    /\ WF_vars(OrchDeliver)
    /\ HandleFairness
    /\ WF_vars(OrchSettle)

FairSpec == Init /\ [][FairNext]_vars /\ Fairness

\* The same two operations with the broker coming and going as well.
NextOutage ==
    \/ RtStoreFlips
    \/ RtBrokerFlips
    \/ \E title \in Titles, priority \in {"normal", "high"} :
            CreateTask(title, priority)
    \/ \E task_id \in DOMAIN tasks, agent_type \in AgentTypes :
            AssignTask(task_id, agent_type)

SpecOutage == Init /\ [][NextOutage]_vars

\* The Orchestrator creating and assigning tasks, the store coming and going.
NextAssign ==
    \/ StoreFails
    \/ StoreRecovers
    \/ \E title \in Titles, priority \in TaskPriorities : CreateTask(title, priority)
    \/ \E task_id \in DOMAIN tasks, agent_type \in AgentTypes :
            AssignTask(task_id, agent_type)

SpecAssign == Init /\ [][NextAssign]_vars

\* The Orchestrator registering agent classes, spawning agents and
\* creating tasks, the store coming and going.
NextSpawn ==
    \/ StoreFails
    \/ StoreRecovers
    \/ OrchStart
    \/ \E title \in Titles, priority \in TaskPriorities : CreateTask(title, priority)
    \/ \E agent_type \in AgentTypes : RegisterAgentClass(agent_type)
    \/ \E agent_type \in AgentTypes : SpawnAgent(agent_type)
    \/ \E agent_id \in DOMAIN agents : Heartbeat(agent_id)
    \/ \E agent_id \in DOMAIN agents : StopAgent(agent_id)

SpecSpawn == Init /\ [][NextSpawn]_vars

\* The Orchestrator consuming replies, those about tasks it never
\* registered among them, while the store comes and goes.
NextReply ==
    \/ StoreFails
    \/ StoreRecovers
    \/ OrchStart
    \/ \E title \in Titles : CreateTask(title, "normal")
    \/ \E task_id \in ReplyTaskIds, action \in ArrivingActions :
            AgentReply(task_id, action)
    \/ OrchDeliver
    \/ OrchHandle
    \/ OrchSettle

SpecReply == Init /\ [][NextReply]_vars

\* The Orchestrator's health report, the servers coming and going.
NextHealth ==
    \/ RtStoreFlips
    \/ RtBrokerFlips
    \/ HealthCall
    \/ \E outcome \in RedisPing : HealthRedis(outcome)
    \/ \E outcome \in RabbitmqPing : HealthRabbitmq(outcome)
    \/ \E outcome \in VaultPing : HealthVault(outcome)
    \/ HealthAgents

SpecHealth == Init /\ [][NextHealth]_vars

\* One CoderAgent constructed on its own, as the tests construct agents:
\* started, sent messages, stopped, while store and broker come and go and
\* no time passes.
InitAgent ==
    /\ now = 0
    /\ QuietLock
    /\ QuietWire
    /\ QuietRoute
    /\ store_up = TRUE
    /\ published = 0
    /\ orch = [running |-> FALSE, consuming |-> FALSE, spawned |-> "none"]
    /\ tasks = EmptyDict
    /\ snap = EmptyDict
    /\ context = EmptyDict
    /\ agent_status = EmptyDict
    /\ queues = [q \in QueueNames |-> <<>>]
    /\ unacked = NoUnacked
    /\ agent_classes = {}
    /\ audit = <<>>
    /\ velocity = <<>>
    /\ broker_up = TRUE
    /\ rt = IdleRuntime
    /\ agents = (RuntimeAgentId :> OfflineAgent)

NextAgent ==
    \/ RtStoreFlips
    \/ RtBrokerFlips
    \/ \E a \in DOMAIN agents : RtStart(a)
    \/ \E a \in DOMAIN agents : HbWrite(a)
    \/ \E a \in DOMAIN agents :
            \E m \in RuntimeMessages(agents[a].agent_type) : HmEnter(a, m)
    \/ \E a \in DOMAIN agents : HmStatus(a)
    \/ \E a \in DOMAIN agents : HmContext(a)
    \/ \E a \in DOMAIN agents, run \in RuntimeRuns : HmExecute(a, run)
    \/ \E a \in DOMAIN agents : HmSend(a)
    \/ \E a \in DOMAIN agents : HmLog(a)
    \/ \E a \in DOMAIN agents : HmFinally(a)
    \/ \E a \in DOMAIN agents : StopBegin(a)
    \/ \E a \in DOMAIN agents : StopOffline(a)

SpecAgent == InitAgent /\ [][NextAgent]_vars

\* A second message for the same agent, about another task.
SecondMessages(agent_type) ==
    { TaskMessage("msg-456", "corr-456", "task-456", "orchestrator",
                  agent_type, "task.assign", PyDict(<<>>), "normal", None, now) }

\* A second handle_message call, made while the first is suspended at one of
\* its awaits, that runs to its end before the first is resumed: nothing in
\* handle_message keeps two calls apart.
SecondCall(a, m, run) ==
    /\ rt.call.pc \notin {"idle", "done"}
    /\ HandleMessage(a, m, run)

\* The agent, started and never stopped, with a reachable broker: a call of
\* handle_message step by step and second calls in between.
NextOverlap ==
    \/ RtStoreFlips
    \/ \E a \in DOMAIN agents : RtStart(a)
    \/ \E a \in DOMAIN agents : HbWrite(a)
    \/ \E a \in DOMAIN agents :
            \E m \in RuntimeMessages(agents[a].agent_type) : HmEnter(a, m)
    \/ \E a \in DOMAIN agents : HmStatus(a)
    \/ \E a \in DOMAIN agents : HmContext(a)
    \/ \E a \in DOMAIN agents, run \in RuntimeRuns : HmExecute(a, run)
    \/ \E a \in DOMAIN agents : HmSend(a)
    \/ \E a \in DOMAIN agents : HmLog(a)
    \/ \E a \in DOMAIN agents : HmFinally(a)
    \/ \E a \in DOMAIN agents, run \in Runs :
            \E m \in SecondMessages(agents[a].agent_type) : SecondCall(a, m, run)

SpecOverlap == InitAgent /\ [][NextOverlap]_vars

\* The agent, started and never stopped, with the heartbeat's write in its
\* two halves between the steps of a handle_message call.
NextRace ==
    \/ RtStoreFlips
    \/ \E a \in DOMAIN agents : RtStart(a)
    \/ \E a \in DOMAIN agents : HbCapture(a)
    \/ \E a \in DOMAIN agents : HbLand(a)
    \/ \E a \in DOMAIN agents :
            \E m \in RuntimeMessages(agents[a].agent_type) : HmEnter(a, m)
    \/ \E a \in DOMAIN agents : HmStatus(a)
    \/ \E a \in DOMAIN agents : HmContext(a)
    \/ \E a \in DOMAIN agents, run \in RuntimeRuns : HmExecute(a, run)
    \/ \E a \in DOMAIN agents : HmSend(a)
    \/ \E a \in DOMAIN agents : HmLog(a)
    \/ \E a \in DOMAIN agents : HmFinally(a)

SpecRace == InitAgent /\ [][NextRace]_vars

\* The agent handed messages addressed to any agent type: handle_message
\* is called with whatever message its caller holds.
NextAddress ==
    \/ RtStoreFlips
    \/ \E a \in DOMAIN agents : RtStart(a)
    \/ \E a \in DOMAIN agents : HbWrite(a)
    \/ \E a \in DOMAIN agents, target \in AgentTypes :
            \E m \in RuntimeMessages(target) : HmEnter(a, m)
    \/ \E a \in DOMAIN agents : HmStatus(a)
    \/ \E a \in DOMAIN agents : HmContext(a)
    \/ \E a \in DOMAIN agents, run \in RuntimeRuns : HmExecute(a, run)
    \/ \E a \in DOMAIN agents : HmSend(a)
    \/ \E a \in DOMAIN agents : HmLog(a)
    \/ \E a \in DOMAIN agents : HmFinally(a)

SpecAddress == InitAgent /\ [][NextAddress]_vars

\* The same agent started and stopped while time passes and the servers
\* come and go: its heartbeat.
NextBeat ==
    \/ RtStoreFlips
    \/ RtBrokerFlips
    \/ RtTick
    \/ \E a \in DOMAIN agents : RtStart(a)
    \/ \E a \in DOMAIN agents : HbWrite(a)
    \/ \E a \in DOMAIN agents : HbWake(a)
    \/ \E a \in DOMAIN agents : StopBegin(a)
    \/ \E a \in DOMAIN agents : StopOffline(a)

SpecBeat == InitAgent /\ [][NextBeat]_vars


(***************************************************************************)
(*                        Claims on the lock                               *)
(***************************************************************************)

\* The SET of an acquire_lock call by p is this step.
AcquireStep(p) == proc[p].pc = "acq_set" /\ proc'[p].pc = "ret"

\* The GET of a release_lock call by p is this step.
ReleaseGetStep(p) == proc[p].pc = "rel_get" /\ proc'[p].pc # "rel_get"

\* The DELETE of a release_lock call by p is this step.
ReleaseDeleteStep(p) == proc[p].pc = "rel_del" /\ proc'[p].pc = "ret"

\* C2: acquire_lock is mutually exclusive. Between two moments at which the
\* entry of a name is absent at most one acquire_lock call for it returns
\* True; a call that finds an entry returns False and leaves holder and
\* expiry as they were, a call that finds none returns True and records its
\* holder with expiry now + ttl.
C2_AcquireMutuallyExclusive ==
    /\ [](\A n \in LockNames : grants[n] <= 1)
    /\ [][\A p \in Holders : AcquireStep(p) =>
            LET n == proc[p].name
            IN /\ \A m \in LockNames \ {n} : locks'[m] = locks[m]
               /\ IF locks[n] = NoLock
                  THEN /\ proc'[p].result = TRUE
                       /\ locks'[n] = [holder |-> p, expiry |-> now + proc[p].ttl]
                  ELSE /\ proc'[p].result = FALSE
                       /\ locks'[n] = locks[n]]_vars

\* C2's case: a call lost against a live entry of another holder.
C2_Witness ==
    \E p \in Holders :
        /\ proc[p].pc = "ret" /\ proc[p].op = "acquire"
        /\ proc[p].result = FALSE
        /\ locks[proc[p].name] # NoLock
        /\ locks[proc[p].name].holder # p
        /\ grants[proc[p].name] = 1

\* C3: release_lock run without interference (the entry is at the DELETE
\* what it was at the GET) returns False and leaves every entry unchanged
\* when the stored holder differs from the caller or the key is missing,
\* and returns True and removes the entry when the stored holder is the
\* caller.
C3_ReleaseChecksHolder ==
    [][\A p \in Holders :
        LET n == proc[p].name
        IN /\ ReleaseGetStep(p) =>
                /\ locks' = locks
                /\ locks[n].holder # p =>
                       proc'[p].pc = "ret" /\ proc'[p].result = FALSE
                /\ locks[n].holder = p => proc'[p].pc = "rel_del"
           /\ (ReleaseDeleteStep(p) /\ locks[n] = proc[p].seen) =>
                /\ locks'[n] = NoLock
                /\ proc'[p].result = TRUE
                /\ \A m \in LockNames \ {n} : locks'[m] = locks[m]]_vars

\* C3's case: the owner released its own, still unexpired lock.
C3_Witness ==
    \E p \in Holders :
        /\ proc[p].pc = "ret" /\ proc[p].op = "release"
        /\ proc[p].result = TRUE
        /\ proc[p].seen.holder = p
        /\ now < proc[p].seen.expiry
        /\ locks[proc[p].name] = NoLock

\* C4: only the current holder releases a lock, under every interleaving:
\* the DELETE of release_lock(name, h) never removes an entry whose holder
\* at that moment is not h.
C4_OnlyHolderReleases ==
    [][\A p \in Holders : ReleaseDeleteStep(p) =>
            LET n == proc[p].name
            IN locks[n] # NoLock => locks[n].holder = p]_vars

(***************************************************************************)
(*                     Claims on the wire format                           *)
(***************************************************************************)

\* C9: to_json followed by from_json gives back a TaskMessage equal to the
\* original in all nine fields.
C9_WireRoundTrip ==
    wire.pc = "parsed" =>
        /\ wire.back.message_id = wire.msg.message_id
        /\ wire.back.correlation_id = wire.msg.correlation_id
        /\ wire.back.task_id = wire.msg.task_id
        /\ wire.back.source_agent = wire.msg.source_agent
        /\ wire.back.target_agent = wire.msg.target_agent
        /\ wire.back.action = wire.msg.action
        /\ wire.back.payload = wire.msg.payload
        /\ wire.back.priority = wire.msg.priority
        /\ wire.back.timestamp = wire.msg.timestamp

\* C9's case: a high-priority message with a nested payload, stamped by its
\* constructor, parsed at a later time than it was built.
C9_Witness ==
    /\ wire.pc = "parsed"
    /\ wire.msg.priority = "high"
    /\ wire.msg.timestamp = Stamp(wire.built_at)
    /\ wire.built_at < now
    /\ DictGet(wire.msg.payload, "artifacts", PyNone) = PyList(<<PyDict(<<>>)>>)
    /\ Len(wire.text) > 40

(***************************************************************************)
(*                        Claims on routing                                *)
(***************************************************************************)

\* The lower-cased title or description of the routed task contains kw.
RoutedTextHas(kw) ==
    Contains(Lower(route.title), kw) \/ Contains(Lower(route.description), kw)

\* A keyword of a rule declared before the infra rule occurs in the
\* lower-cased title + " " + description of the routed task.
EarlierRuleMatches ==
    \E i \in 1..(Len(RoutingRules) - 1) :
        AnyKeyword(Lower(route.title) \o " " \o Lower(route.description),
                   RoutingRules[i].keywords)

\* C10 as stated: whenever the title or description contains "deploy",
\* route_task returns infra, whatever else they contain.
C10_DeployAlwaysInfra ==
    (route.calls = "returned" /\ RoutedTextHas("deploy")) => route.returned = "infra"

\* C10 as amended: whenever the title or description contains "deploy" (in
\* any letter case) and no keyword of the four rules declared before the
\* infra rule, route_task returns infra, whatever it returned the call
\* before.
C10_DeployInfraUnlessEarlierRule ==
    (route.calls = "returned" /\ RoutedTextHas("deploy") /\ ~EarlierRuleMatches)
        => route.returned = "infra"

\* C10's case: a capitalised Deploy in the title, a description, and a
\* previous call that returned another agent type.
C10_Witness ==
    /\ route.calls = "returned"
    /\ route.title = "deployment Deploy"
    /\ route.description = "Deploy"
    /\ route.returned = "infra"
    /\ route.before = "researcher"

\* The lower-cased title, a space, the lower-cased description of the
\* routed task.
RoutedText == Lower(route.title) \o " " \o Lower(route.description)

\* The keywords of rule i that occur in text, by position.
MatchedKeywords(text, i) ==
    {k \in 1..Len(RoutingRules[i].keywords) :
        Contains(text, RoutingRules[i].keywords[k])}

\* The rules with a keyword that occurs in text, by position.
MatchingRules(text) ==
    {i \in 1..Len(RoutingRules) : MatchedKeywords(text, i) # {}}

\* C11: what route_task returned is the agent type of the matching rule
\* declared first, or coder when no rule matches; and the Orchestrator, its
\* store and its broker are as they were before any route_task call.
C11_FirstMatchingRuleWins ==
    route.calls = "returned" =>
        /\ LET matching == MatchingRules(RoutedText)
           IN IF matching = {}
              THEN route.returned = "coder"
              ELSE \E i \in matching :
                      /\ \A j \in matching : i <= j
                      /\ route.returned = RoutingRules[i].agent_type
        /\ QuietSys

\* C11's case: the architect rule matches one keyword, the researcher rule
\* declared after it matches two, and the call returned architect.
C11_Witness ==
    /\ route.calls = "returned"
    /\ route.title = "Redesign research"
    /\ Cardinality(MatchedKeywords(RoutedText, 1)) = 1
    /\ Cardinality(MatchedKeywords(RoutedText, 3)) = 2
    /\ route.returned = "architect"

(***************************************************************************)
(*                  Claims on the orchestrator and broker                  *)
(***************************************************************************)

\* The order pending < queued < in_progress < {completed, failed}.
Rank(status) ==
    IF status = "pending" THEN 0
    ELSE IF status = "queued" THEN 1
    ELSE IF status = "in_progress" THEN 2
    ELSE 3

\* The message the step published, if it published one into queue q.
PublishedInto(q) ==
    /\ published' = published + 1
    /\ Len(queues'[q]) = Len(queues[q]) + 1

Newest(q) == queues'[q][Len(queues'[q])]

\* C1: in every step, no task's status moves backwards in the order
\* pending < queued < in_progress < {completed, failed}, and a task that is
\* completed or failed keeps its status.
C1_StatusNeverRegresses ==
    [][\A t \in DOMAIN tasks :
          /\ Rank(tasks'[t].status) >= Rank(tasks[t].status)
          /\ tasks[t].status \in {"completed", "failed"}
                => tasks'[t].status = tasks[t].status]_vars

\* C5: every task.assign message published for a task of priority high or
\* critical goes out under routing key task.high, into the high-priority
\* queue.
C5_HighAndCriticalUseHighKey ==
    [][\A q \in QueueNames :
          (/\ PublishedInto(q)
           /\ FromJson(Newest(q).body, now).action = "task.assign"
           /\ FromJson(Newest(q).body, now).priority \in {"high", "critical"})
          => (Newest(q).routing_key = "task.high" /\ q = HighPriorityQueue)]_vars

\* A call assign_task(tasks[t], a) that returns: the store took the snapshot
\* and the broker the message.
AssignReturns(t, a) == store_up /\ broker_up /\ AssignTask(t, a)

\* C6: every assign_task call that returns, on a task whose priority is
\* neither high nor critical, leaves the task queued with assigned_agent the
\* given agent type and adds exactly one message to the broker: a
\* task.assign for that task and agent type, under routing key task.default
\* at the tail of the default queue.
C6_AssignQueuesOnDefault ==
    [][\A t \in DOMAIN tasks, a \in AgentTypes :
          (AssignReturns(t, a) /\ tasks[t].priority \notin {"high", "critical"})
          => /\ tasks'[t].status = "queued"
             /\ tasks'[t].assigned_agent = a
             /\ published' = published + 1
             /\ queues'[HighPriorityQueue] = queues[HighPriorityQueue]
             /\ Len(queues'[DefaultQueue]) = Len(queues[DefaultQueue]) + 1
             /\ SubSeq(queues'[DefaultQueue], 1, Len(queues[DefaultQueue]))
                    = queues[DefaultQueue]
             /\ Newest(DefaultQueue).routing_key = "task.default"
             /\ LET m == FromJson(Newest(DefaultQueue).body, now)
                IN /\ m.action = "task.assign"
                   /\ m.task_id = t
                   /\ m.target_agent = a]_vars

\* A task of priority low went through assign_task for the infra agent:
\* it is queued and its task.assign waits alone in the default queue.
C6_Witness ==
    \E t \in DOMAIN tasks :
        /\ tasks[t].priority = "low"
        /\ tasks[t].status = "queued"
        /\ tasks[t].assigned_agent = "infra"
        /\ published = 1
        /\ queues[HighPriorityQueue] = <<>>
        /\ Len(queues[DefaultQueue]) = 1
        /\ queues[DefaultQueue][1].routing_key = "task.default"
        /\ FromJson(queues[DefaultQueue][1].body, now).action = "task.assign"
        /\ FromJson(queues[DefaultQueue][1].body, now).task_id = t

\* C7: a delivery leaves the consumer's hands for good only when the handler
\* returned; when the handler raised, the message is back in its queue,
\* ready to be delivered again.
C7_AckFollowsHandler ==
    [][(unacked.state # "none" /\ unacked'.state = "none")
          => \/ unacked.state = "returned"
             \/ \E i \in 1..Len(queues'[DefaultQueue]) :
                    queues'[DefaultQueue][i] = unacked.delivery]_vars

\* C8: once the Orchestrator runs, an agent of the task's assigned type
\* runs, and the task is queued, the task eventually is completed or failed.
C8_AssignedTaskEventuallySettles ==
    \A t \in TaskIds :
        (/\ t \in DOMAIN tasks
         /\ tasks[t].status = "queued"
         /\ orch.running
         /\ \E a \in DOMAIN agents :
                /\ agents[a].running
                /\ agents[a].agent_type = tasks[t].assigned_agent)
        ~> (t \in DOMAIN tasks /\ tasks[t].status \in {"completed", "failed"})

---------------------------------------------------------------------------
\* Replies about unknown tasks (SpecReply)

\* The message the consumer holds, and the callback running on it.
Delivered == FromJson(unacked.delivery.body, now)

Handling ==
    /\ unacked.state = "delivered"
    /\ unacked'.state \in {"returned", "raised"}

---------------------------------------------------------------------------
\* One Agent Runtime (SpecAgent)

\* The handle_message call under way or last ended, and whether it has ended.
Call == rt.call

CallEnded == Call.pc = "done"

\* Every store write and every publish the call made went through.
ServicesHeld == ~Call.store_failed /\ ~Call.publish_failed

\* The call got as far as execute_task.
Executed == Call.outcome # "none"

Unrecognized == Call.m.action \notin Capabilities(agents[RuntimeAgentId].agent_type)

\* The audit entries appended since the call began.
Logged == SubSeq(audit, Call.audit0 + 1, Len(audit))

ErrorOf(reply) == DictGet(reply.payload, "error", PyNone)

CallEnds == Call.pc # "done" /\ rt'.call.pc = "done"

Reply == Call.sent[1]

SuccessOf(reply) == DictGet(reply.payload, "success", PyNone)

ResultIn(reply) == DictGet(reply.payload, "result", PyNone)

\* C15: a handle_message call that got to execute_task and whose publishes
\* all went through has published, when it ends, exactly one reply, which is
\* in the default queue: task.complete carrying the result when execute_task
\* returned success, task.fail carrying the error text when it returned a
\* failure or raised.
C15_ExactlyOneReply ==
    CallEnded /\ Executed /\ ~Call.publish_failed
        => /\ Len(Call.sent) = 1
           /\ Call.trace \in {<<"publish">>, <<"publish", "log">>}
           /\ \E i \in 1..Len(queues[DefaultQueue]) :
                  queues[DefaultQueue][i].body = ToJson(Reply)
           /\ IF Call.outcome = "success"
              THEN /\ Reply.action = "task.complete"
                   /\ SuccessOf(Reply) = PyBool(TRUE)
                   /\ ResultIn(Reply) = PyStr("done")
              ELSE /\ Reply.action = "task.fail"
                   /\ SuccessOf(Reply) = PyBool(FALSE)
                   /\ ErrorOf(Reply) =
                          PyStr(IF Call.outcome = "raise" THEN "boom"
                                ELSE FailureText("coder", Call.m))

\* A call in which execute_task returned a failure for an action it knows
\* has ended with its one task.fail reply in the queue.
C15_Witness ==
    /\ CallEnded /\ Executed /\ ~Call.publish_failed
    /\ Call.outcome = "failure"
    /\ ~Unrecognized
    /\ Len(Call.sent) = 1
    /\ Reply.action = "task.fail"
    /\ ErrorOf(Reply) = PyStr("generation failed")
    /\ Len(queues[DefaultQueue]) = 1

\* C16: every reply a handle_message call has published carries the
\* correlation_id and the task_id of the message handled and another
\* message_id, names the agent as its source and the orchestrator as its
\* target, and is what the queue holds, serialised.
C16_ReplyEchoesRequest ==
    \A i \in 1..Len(Call.sent) :
        /\ Call.sent[i].correlation_id = Call.m.correlation_id
        /\ Call.sent[i].task_id = Call.m.task_id
        /\ Call.sent[i].message_id # Call.m.message_id
        /\ Call.sent[i].source_agent = RuntimeAgentId
        /\ Call.sent[i].target_agent = "orchestrator"
        /\ \E j \in 1..Len(queues[DefaultQueue]) :
               FromJson(queues[DefaultQueue][j].body, now) = Call.sent[i]

\* A reply to the message msg-123 / corr-123 / task-123 is out.
C16_Witness ==
    /\ Len(Call.sent) = 1
    /\ Call.m.message_id = "msg-123"
    /\ Reply.correlation_id = "corr-123"
    /\ Reply.task_id = "task-123"
    /\ Reply.message_id = MessageUuid(1)
    /\ Reply.source_agent = AgentId("coder", 1)
    /\ Len(queues[DefaultQueue]) = 1

\* The Failure entries the call has appended for its task.
FailuresLogged ==
    { i \in 1..Len(Logged) : /\ Logged[i].kind = "failure"
                             /\ Logged[i].agent = RuntimeAgentId
                             /\ Logged[i].task_id = Call.m.task_id }

\* C17: whenever a call in which execute_task raised has published its
\* task.fail reply, the Failure entry for the task is already appended.
C17_FailureLoggedBeforeReply ==
    Call.outcome = "raise" /\ Call.sent # <<>> => FailuresLogged # {}

C19_OfflineIsFinal ==
    rt.stop = "done" /\ ~Call.after_stop
        => /\ agents[RuntimeAgentId].status = OFFLINE
           /\ agent_status[RuntimeAgentId] = OFFLINE

---------------------------------------------------------------------------
\* The heartbeat (SpecBeat)

\* start() has completed and stop() was not called: the agent runs, with
\* its heartbeat task created.
Running == agents[RuntimeAgentId].running /\ rt.hb.pc # "none"

\* The heartbeat task has just made a status write that went through.
Rewrote == rt.hb.pc = "sleep" /\ rt.hb.last = now /\ ~rt.hb.failed

\* C20: while the agent runs, its heartbeat task is alive, writing or
\* asleep until one interval after its last write, which is never more than
\* one interval back, also when that write failed; and a write that went
\* through left the agent's current status in its status record.
C20_HeartbeatKeepsWriting ==
    Running
        => /\ rt.hb.pc \in {"write", "sleep"}
           /\ now - rt.hb.last <= heartbeat_interval_seconds
           /\ rt.hb.pc = "sleep"
                  => rt.hb.wake = rt.hb.last + heartbeat_interval_seconds
           /\ Rewrote
                  => agent_status[RuntimeAgentId] = agents[RuntimeAgentId].status

\* One interval after a heartbeat write that failed, the heartbeat has
\* written the status again.
C20_Witness ==
    /\ Running
    /\ Rewrote
    /\ rt.hb.errors = 1
    /\ now = heartbeat_interval_seconds
    /\ agent_status[RuntimeAgentId] = IDLE

---------------------------------------------------------------------------
\* The agent's broker client (SpecAgent)

\* The step in which handle_message's publish is attempted.
PublishAttempt ==
    /\ Call.pc = "send"
    /\ rt'.call.pc # "send" \/ rt'.call.error # Call.error

\* C21: a publish attempted while the client holds no connection raises,
\* puts nothing in a queue, and leaves the client without a connection.
C21_DisconnectedPublishRaises ==
    [][PublishAttempt /\ ~rt.conn
          => /\ rt'.call.publish_failed
             /\ queues' = queues
             /\ ~rt'.conn]_vars

---------------------------------------------------------------------------
\* Orchestrator operations (SpecAssign, Spec, SpecReply)

\* A create_task call: the registry gets an entry.
Creates == DOMAIN tasks' # DOMAIN tasks

C23_SpawnNeedsRegisteredType ==
    [][\A ty \in AgentTypes :
          SpawnAgent(ty)
             => /\ agent_classes' = agent_classes
                /\ IF ty \notin agent_classes
                   THEN /\ orch'.spawned = "ValueError: Unknown agent type"
                        /\ agents' = agents
                        /\ agent_status' = agent_status
                   ELSE store_up
                          => \E id \in DOMAIN agents' \ DOMAIN agents :
                                /\ orch'.spawned = id
                                /\ DOMAIN agents' = DOMAIN agents \cup {id}
                                /\ agents'[id].agent_type = ty
                                /\ agents'[id].status = IDLE
                                /\ agents'[id].running
                                /\ agent_status'[id] = IDLE
                                /\ \A a \in DOMAIN agents : agents'[a] = agents[a]]_vars

\* A spawn of the unregistered type infra was refused while coder is
\* registered and no agent exists.
C23_Witness ==
    /\ orch.spawned = "ValueError: Unknown agent type"
    /\ agent_classes = {"coder"}
    /\ agents = EmptyDict
    /\ agent_status = EmptyDict

\* C24: when the Orchestrator's callback runs on a message whose action is
\* none of task.complete, task.fail and task.progress, it returns without
\* raising, and the registry, the task snapshots, the agent contexts, the
\* audit log and the velocity log are what they were.
C24_UnknownActionIsDropped ==
    [][Handling /\ Delivered.action \notin ReplyActions
          => /\ unacked'.state = "returned"
             /\ tasks' = tasks
             /\ snap' = snap
             /\ context' = context
             /\ audit' = audit
             /\ velocity' = velocity]_vars

\* The callback has returned on a task.cancel about a registered task,
\* which is still pending, with nothing logged but the task's creation.
C24_Witness ==
    /\ unacked.state = "returned"
    /\ Delivered.action = "task.cancel"
    /\ Delivered.task_id \in DOMAIN tasks
    /\ tasks[Delivered.task_id].status = "pending"
    /\ Len(audit) = 1
    /\ velocity = <<>>

---------------------------------------------------------------------------
\* The health report (SpecHealth)

VaultChecked == health.pc \in {"agents", "returned", "raised"}

\* C25: once get_system_health has checked the secret store, the overall
\* status is unhealthy only if it was so before that check, it is still
\* unhealthy if it was, and when neither the store's nor the broker's check
\* raised it is healthy or degraded, whatever the secret store's check did.
C25_VaultOnlyDegrades ==
    VaultChecked
        => /\ health.status = "unhealthy" <=> health.before_vault = "unhealthy"
           /\ health.redis # "error" /\ health.rabbitmq # "error"
                  => health.status \in {"healthy", "degraded"}
           /\ health.redis = "error" \/ health.rabbitmq = "error"
                  => health.status = "unhealthy"

\* The broker's check raised and then the secret store's: the report has
\* returned, still unhealthy.
C25_Witness ==
    /\ health.pc = "returned"
    /\ health.redis = "healthy"
    /\ health.rabbitmq = "error"
    /\ health.vault = "error"
    /\ health.status = "unhealthy"

---------------------------------------------------------------------------
\* The runtime's lifecycle (SpecAgent)

Status == agents[RuntimeAgentId].status

\* C26: a fault inside the handling of a message takes the agent from BUSY
\* to ERROR: when a call in which execute_task raised leaves BUSY, the
\* status it takes is ERROR.
C26_FaultLeadsToError ==
    [][Status = BUSY /\ Call.outcome = "raise" /\ Status' # BUSY
          => Status' = ERROR]_vars

---------------------------------------------------------------------------
\* Messages on the broker (SpecAssign, SpecAgent)

\* C27: every message in a queue of the broker carries priority normal or
\* high.
C27_PriorityIsNormalOrHigh ==
    \A q \in QueueNames : \A i \in 1..Len(queues[q]) :
        FromJson(queues[q][i].body, now).priority \in {"normal", "high"}

\* C28: every message published enters the queue bound to the routing key
\* publish_task derived for it, behind the messages already there, as a
\* persistent message whose priority hint is 5 when its priority field is
\* normal and 9 for any other value.
C28_HintFollowsPriority ==
    [][\A q \in QueueNames :
          PublishedInto(q)
             => LET m == FromJson(Newest(q).body, now)
                IN /\ Newest(q).hint = IF m.priority = "normal" THEN 5 ELSE 9
                   /\ Newest(q).persistent
                   /\ Newest(q).routing_key = PublishTaskRoutingKey(m.priority)
                   /\ BoundQueue(Newest(q).routing_key) = q
                   /\ SubSeq(queues'[q], 1, Len(queues[q])) = queues[q]]_vars

\* The assignment of a task of priority low is queued with hint 9 under
\* task.default.
C28_Witness ==
    \E i \in 1..Len(queues[DefaultQueue]) :
        /\ FromJson(queues[DefaultQueue][i].body, now).priority = "low"
        /\ queues[DefaultQueue][i].hint = 9
        /\ queues[DefaultQueue][i].persistent
        /\ queues[DefaultQueue][i].routing_key = "task.default"

---------------------------------------------------------------------------
\* The edges of the lifecycle (SpecAgent)

\* A step in which start() sets the agent running.
Starts == ~agents[RuntimeAgentId].running /\ agents'[RuntimeAgentId].running

\* A step in which a handle_message call ends.
CallEndsNow == Call.pc # "done" /\ rt'.call.pc = "done"

\* C29: the status changes along the lifecycle's edges only: to BUSY only
\* from IDLE, to IDLE only from OFFLINE by start() or from BUSY at the end
\* of a handle_message call, and an agent that stop() made OFFLINE stays
\* OFFLINE until start() runs again.
C29_LifecycleEdgesOnly ==
    [][/\ Status' = BUSY /\ Status # BUSY => Status = IDLE
       /\ Status' = IDLE /\ Status # IDLE
             => \/ Status = OFFLINE /\ Starts
                \/ Status = BUSY /\ CallEndsNow
       /\ Status = OFFLINE /\ rt.stop = "done" /\ ~Starts
             => Status' = OFFLINE]_vars

\* stop() has completed while a handle_message call that began before it
\* is still in its try block: the agent is OFFLINE with the call's finally
\* block still to run.
C29_Witness ==
    /\ rt.stop = "done"
    /\ Status = OFFLINE
    /\ Call.stopped
    /\ Call.pc \notin {"idle", "done"}

---------------------------------------------------------------------------
\* The velocity log (SpecReply)

\* C30: a callback that returns appends one velocity record, about the
\* message, when the message is a task.complete for a task of the registry,
\* and appends none for any other message: a task.fail, a task.progress, an
\* unrecognized action, or a reply whose task_id the registry does not
\* have.
C30_VelocityPerKnownCompletion ==
    [][Handling /\ unacked'.state = "returned"
          => velocity' = IF /\ Delivered.action = "task.complete"
                            /\ Delivered.task_id \in DOMAIN tasks
                         THEN Append(velocity, VelocityEntry(Delivered))
                         ELSE velocity]_vars

\* The callback has returned on a task.complete about task-123, which the
\* registry does not have.
C30_Witness ==
    /\ unacked.state = "returned"
    /\ Delivered.action = "task.complete"
    /\ Delivered.task_id \notin DOMAIN tasks

---------------------------------------------------------------------------
\* Assignments and the Orchestrator's own consumer (Spec)

\* C31: the Orchestrator's consumer never takes a task.assign message out
\* of its queue for good: a delivery it settles without handing it back to
\* the queue is not a task.assign.
C31_ConsumerLeavesAssignments ==
    [][unacked.state \in {"returned", "raised"} /\ unacked'.state = "none"
          => \/ Delivered.action # "task.assign"
             \/ queues'[DefaultQueue] # queues[DefaultQueue]]_vars

\* The Orchestrator's callback has returned on a task.assign message that
\* assign_task published, with no agent having handled anything.
C31_Witness ==
    /\ unacked.state = "returned"
    /\ Delivered.action = "task.assign"
    /\ Delivered.source_agent = "orchestrator"
    /\ Delivered.task_id \in DOMAIN tasks
    /\ context = EmptyDict

---------------------------------------------------------------------------
\* Queued tasks and their assignment message (SpecOutage)

\* A task.assign message for task t is in a queue of the broker (nothing
\* consumes here: what was published is still there).
AssignPublished(t) ==
    \E q \in QueueNames : \E i \in 1..Len(queues[q]) :
        LET m == FromJson(queues[q][i].body, now)
        IN m.action = "task.assign" /\ m.task_id = t

\* C32: a task that is queued, in the registry or in its snapshot in the
\* store, has had its task.assign message published: a publish that fails
\* inside assign_task does not leave the task queued.
C32_QueuedMeansPublished ==
    \A t \in DOMAIN tasks :
        \/ tasks[t].status = "queued"
        \/ (t \in DOMAIN snap /\ snap[t].status = "queued")
        => AssignPublished(t)

\* assign_task wrote the queued snapshot and then failed to publish: the
\* broker is unreachable and holds no message.
C32_Witness ==
    /\ ~broker_up
    /\ published = 0
    /\ \E t \in DOMAIN tasks : t \in DOMAIN snap /\ snap[t].status = "queued"

---------------------------------------------------------------------------
\* Failure replies of a handler that succeeded (SpecAgent)

\* C33: a call whose execute_task returned success publishes no task.fail
\* reply and appends no Failure entry for its message, whether or not the
\* publish of its task.complete reply went through.
C33_NoFailureAfterSuccess ==
    Call.outcome = "success"
        => /\ \A i \in 1..Len(Call.sent) : Call.sent[i].action # "task.fail"
           /\ FailuresLogged = {}

\* execute_task returned success, the publish of the task.complete reply
\* raised, and the call has ended after its except block ran to its end.
C33_Witness ==
    /\ CallEnded
    /\ Call.outcome = "success"
    /\ Call.publish_failed
    /\ Call.sent # <<>>
    /\ FailuresLogged # {}

---------------------------------------------------------------------------
\* completed_at (Spec)

\* C34: a task of the registry has completed_at set exactly when its status
\* is completed.
C34_CompletedAtIffCompleted ==
    \A t \in DOMAIN tasks :
        tasks[t].completed_at # None <=> tasks[t].status = "completed"

\* A task whose completion was handled is no longer completed: it carries
\* completed_at under another status.
C34_Witness ==
    \E t \in DOMAIN tasks :
        /\ tasks[t].completed_at # None
        /\ tasks[t].status \in {"queued", "failed"}

---------------------------------------------------------------------------
\* Stopping a spawned agent (SpecSpawn)

\* C35: stop() of a spawned agent leaves the Orchestrator's consumer
\* registration on the default queue as it was.
C35_StopLeavesOrchestratorConsuming ==
    [][\A a \in DOMAIN agents :
          StopAgent(a) => orch'.consuming = orch.consuming]_vars

\* The Orchestrator was started and is running, its one spawned agent has
\* been stopped, and the consumer registration is gone.
C35_Witness ==
    /\ orch.running
    /\ ~orch.consuming
    /\ \E a \in DOMAIN agents : /\ ~agents[a].running
                                /\ agents[a].status = OFFLINE
                                /\ agent_status[a] = OFFLINE

---------------------------------------------------------------------------
\* Busy while a handler runs (SpecOverlap)

\* The call is inside execute_task.
InHandler == Call.pc = "execute"

\* C36: while a running agent's execute_task is in flight, the agent's
\* status is BUSY and its current task id is that of the message, also when
\* a second message is handled before the first handler has returned.
C36_BusyWhileHandling ==
    agents[RuntimeAgentId].running /\ InHandler
        => /\ Status = BUSY
           /\ agents[RuntimeAgentId].current_task_id = Call.m.task_id

\* The handler of msg-123 is still in flight, and a second call, for
\* task-456, has run to its end in between and published its reply.
C36_Witness ==
    /\ agents[RuntimeAgentId].running
    /\ InHandler
    /\ "task-456" \in DOMAIN context
    /\ published = 1

---------------------------------------------------------------------------
\* The status record against the status in memory (SpecRace)

\* No write of the agent's status is under way: the heartbeat holds no
\* value to store, and the call is not at its status write.
NoStatusWrite == rt.held = None /\ Call.pc # "status"

\* C37: whenever a started agent has no status write under way and none of
\* its status writes has failed, its status record in the store holds its
\* in-memory status.
C37_RecordFollowsStatus ==
    (/\ RuntimeAgentId \in DOMAIN agent_status
     /\ NoStatusWrite
     /\ ~Call.store_failed
     /\ rt.hb.errors = 0)
        => agent_status[RuntimeAgentId] = Status

\* The handle_message call has ended and the agent is idle, no write is
\* under way and none failed, and the record says busy: the heartbeat's
\* write arrived after the call's.
C37_Witness ==
    /\ CallEnded
    /\ Call.ended = "returned"
    /\ NoStatusWrite
    /\ ~Call.store_failed
    /\ rt.hb.errors = 0
    /\ Status = IDLE
    /\ agent_status[RuntimeAgentId] = BUSY

---------------------------------------------------------------------------
\* Registry and snapshots (Spec)

\* C38: between the Orchestrator's operations, every task of the registry
\* has its snapshot in the store, equal to it in every field.
C38_SnapshotEqualsRegistry ==
    \A t \in DOMAIN tasks : t \in DOMAIN snap /\ snap[t] = tasks[t]

\* assign_task failed at its store write: the registry's task is queued,
\* the snapshot still says pending.
C38_Witness ==
    \E t \in DOMAIN tasks :
        /\ t \in DOMAIN snap
        /\ tasks[t].status = "queued"
        /\ snap[t].status = "pending"
        /\ published = 0

---------------------------------------------------------------------------
\* Healthy needs both critical checks (SpecHealth)

\* C39: in a report that get_system_health returns, a store or broker
\* component whose status is not healthy makes the overall status
\* unhealthy.
C39_HealthyNeedsStoreAndBroker ==
    health.pc = "returned"
        => (health.redis # "healthy" \/ health.rabbitmq # "healthy"
               => health.status = "unhealthy")

\* The broker's ping returned False, the other checks succeeded, and the
\* report came back healthy.
C39_Witness ==
    /\ health.pc = "returned"
    /\ health.redis = "healthy"
    /\ health.rabbitmq = "unhealthy"
    /\ health.vault = "healthy"
    /\ health.status = "healthy"

---------------------------------------------------------------------------
\* Who executes a message (SpecAddress)

\* C40: an agent runs execute_task only on messages addressed to its own
\* agent type and whose action is in its capability list.
C40_OnlyAddresseeExecutes ==
    Executed
        => /\ Call.m.target_agent = agents[RuntimeAgentId].agent_type
           /\ Call.m.action \in Capabilities(agents[RuntimeAgentId].agent_type)

\* The coder agent has executed a task.assign addressed to infra with
\* success and published its task.complete reply.
C40_Witness ==
    /\ agents[RuntimeAgentId].agent_type = "coder"
    /\ Call.m.target_agent = "infra"
    /\ Call.m.action = "task.assign"
    /\ Call.outcome = "success"
    /\ Len(Call.sent) = 1
    /\ Call.sent[1].action = "task.complete"

====
